---------------------------- MODULE Spec2Model ----------------------------
(***************************************************************************)
(* Golab contact-form relay: the admission pipeline of                     *)
(* handleContactSubmission and the Upstash rate-limit service.             *)
(*                                                                         *)
(* Strings are sequences of one-character strings, so that trimming,       *)
(* lower-casing, splitting and substring search are computed as the code   *)
(* computes them.  Time is the value of Date.now() in milliseconds.        *)
(***************************************************************************)
EXTENDS Integers, Sequences, FiniteSets, TLC

(***************************************************************************)
(* Bounds of the model                                                     *)
(***************************************************************************)
\* longest subject or message, in characters, passed to the validator directly
MaxLen == 5
\* the clock is advanced by whole seconds and reads at most MaxTime milliseconds
MaxTime == 1000
\* largest per-dimension limit a configuration of the model uses
MaxLimit == 2
\* number of requests that reach the rate limiter in a behaviour
MaxRequests == 3

(***************************************************************************)
(* Build-time validation limits (env-config.ts parseEnvLimit accepts any   *)
(* integer >= 1; the build modelled here sets small ones).                 *)
(***************************************************************************)
SUBJECT_MAX_LENGTH == 3
MESSAGE_MIN_LENGTH == 2
MESSAGE_MAX_LENGTH == 4
EMAIL_MAX_LENGTH == 320
\* seconds added to a counter's time to live
TTL_BUFFER == 60

(***************************************************************************)
(* String primitives                                                       *)
(***************************************************************************)
Str0 == << >>

\* String.prototype.toLowerCase on one character
LowerChar(c) ==
  CASE c = "A" -> "a"
    [] c = "B" -> "b"
    [] c = "C" -> "c"
    [] c = "K" -> "k"
    [] c = "S" -> "s"
    [] c = "X" -> "x"
    [] c = "T" -> "t"
    [] c = "R" -> "r"
    [] c = "U" -> "u"
    [] c = "E" -> "e"
    [] c = "J" -> "j"
    [] c = "P" -> "p"
    [] OTHER -> c

toLowerCase(s) == [i \in 1..Len(s) |-> LowerChar(s[i])]

IsSpace(c) == c = " "

RECURSIVE trimStart(_)
trimStart(s) ==
  IF s # Str0 /\ IsSpace(Head(s)) THEN trimStart(Tail(s)) ELSE s

RECURSIVE trimEnd(_)
trimEnd(s) ==
  IF s # Str0 /\ IsSpace(s[Len(s)]) THEN trimEnd(SubSeq(s, 1, Len(s) - 1)) ELSE s

\* String.prototype.trim
trim(s) == trimEnd(trimStart(s))

\* String.prototype.includes
includes(s, t) ==
  \E i \in 0..(Len(s) - Len(t)) : SubSeq(s, i + 1, i + Len(t)) = t

\* String.prototype.lastIndexOf for one character, 0-based, -1 when absent
lastIndexOf(s, c) ==
  IF \E i \in 1..Len(s) : s[i] = c
  THEN (CHOOSE i \in 1..Len(s) : s[i] = c /\ \A j \in (i + 1)..Len(s) : s[j] # c) - 1
  ELSE -1

\* String.prototype.split on a one-character separator
RECURSIVE split(_, _)
split(s, sep) ==
  IF \E i \in 1..Len(s) : s[i] = sep
  THEN LET i == CHOOSE k \in 1..Len(s) : s[k] = sep /\ \A j \in 1..(k - 1) : s[j] # sep
       IN  <<SubSeq(s, 1, i - 1)>> \o split(SubSeq(s, i + 1, Len(s)), sep)
  ELSE <<s>>

\* Array.prototype.join with a one-character separator
RECURSIVE join(_, _)
join(parts, sep) ==
  IF parts = << >> THEN Str0
  ELSE IF Len(parts) = 1 THEN parts[1]
  ELSE parts[1] \o <<sep>> \o join(Tail(parts), sep)

\* Array.prototype.filter
RECURSIVE filterNonEmpty(_)
filterNonEmpty(parts) ==
  IF parts = << >> THEN << >>
  ELSE IF Len(Head(parts)) > 0 THEN <<Head(parts)>> \o filterNonEmpty(Tail(parts))
  ELSE filterNonEmpty(Tail(parts))

Range(f) == {f[i] : i \in DOMAIN f}

\* an environment variable that is not set
Undefined == <<"undefined">>


(***************************************************************************)
(* validation.ts                                                           *)
(***************************************************************************)
IsLetter(c) == c \in {"a", "b", "c", "k", "o", "s", "x", "A", "B", "C", "K", "S", "X"}

\* z.string().email(): local@label(.label)*.tld, tld of two letters or more
isEmailShape(s) ==
  LET at == lastIndexOf(s, "@")
      local == SubSeq(s, 1, at)
      domain == SubSeq(s, at + 2, Len(s))
      labels == split(domain, ".")
  IN  /\ at >= 1
      /\ \A i \in 1..Len(local) : IsLetter(local[i]) \/ local[i] = "."
      /\ local[1] # "." /\ local[Len(local)] # "."
      /\ ~includes(s, <<".", ".">>)
      /\ Len(labels) >= 2
      /\ \A k \in 1..Len(labels) :
           Len(labels[k]) >= 1 /\ \A i \in 1..Len(labels[k]) : IsLetter(labels[k][i])
      /\ Len(labels[Len(labels)]) >= 2

Issue(f, m) == [field |-> f, message |-> m]

emailIssues(v) ==
  (IF Len(v) < 1 THEN <<Issue("email", "Email is required")>> ELSE << >>)
  \o (IF ~isEmailShape(v) THEN <<Issue("email", "Please provide a valid email address")>> ELSE << >>)
  \o (IF Len(v) > EMAIL_MAX_LENGTH THEN <<Issue("email", "Email address is too long")>> ELSE << >>)

subjectIssues(v) ==
  (IF Len(v) < 1 THEN <<Issue("subject", "Subject is required")>> ELSE << >>)
  \o (IF Len(v) > SUBJECT_MAX_LENGTH
      THEN <<Issue("subject", "Subject must be less than ${SUBJECT_MAX_LENGTH} characters")>>
      ELSE << >>)

\* variant: a message of exactly the maximum length is refused (>= in place of >)
messageIssues_exclusiveMax(v) ==
  (IF Len(v) < 1 THEN <<Issue("message", "Message is required")>> ELSE << >>)
  \o (IF Len(v) < MESSAGE_MIN_LENGTH
      THEN <<Issue("message", "Message must be at least ${MESSAGE_MIN_LENGTH} characters long")>>
      ELSE << >>)
  \o (IF Len(v) >= MESSAGE_MAX_LENGTH
      THEN <<Issue("message", "Message must be less than ${MESSAGE_MAX_LENGTH} characters")>>
      ELSE << >>)

messageIssues(v) ==
  (IF Len(v) < 1 THEN <<Issue("message", "Message is required")>> ELSE << >>)
  \o (IF Len(v) < MESSAGE_MIN_LENGTH
      THEN <<Issue("message", "Message must be at least ${MESSAGE_MIN_LENGTH} characters long")>>
      ELSE << >>)
  \o (IF Len(v) > MESSAGE_MAX_LENGTH
      THEN <<Issue("message", "Message must be less than ${MESSAGE_MAX_LENGTH} characters")>>
      ELSE << >>)

NoFormData == [email |-> Str0, subject |-> Str0, message |-> Str0]

\* variant: an object schema that is not strict drops the keys it does not know
contactFormSchema_stripExtra(data) ==
  IF data.kind # "object"
  THEN [issues |-> <<Issue("", "Expected object")>>, value |-> NoFormData]
  ELSE [issues |-> emailIssues(data.email) \o subjectIssues(data.subject)
                     \o messageIssues(data.message),
        value |-> [email |-> data.email,
                   subject |-> trim(data.subject),
                   message |-> trim(data.message)]]

\* contactFormSchema.parse: the length checks run on the value as received,
\* the trim transform is the last step of the subject and message chains
contactFormSchema(data) ==
  IF data.kind # "object"
  THEN [issues |-> <<Issue("", "Expected object")>>, value |-> NoFormData]
  ELSE LET issues == emailIssues(data.email) \o subjectIssues(data.subject)
                       \o messageIssues(data.message)
                       \o (IF data.extra \/ data.attachment.kind # "absent"
                           THEN <<Issue("", "Unrecognized key(s) in object")>>
                           ELSE << >>)
       IN  [issues |-> issues,
            value |-> [email |-> data.email,
                       subject |-> trim(data.subject),
                       message |-> trim(data.message)]]

validateContactForm(data) ==
  LET parsed == contactFormSchema(data)
  IN  IF parsed.issues = << >>
      THEN [success |-> TRUE, data |-> parsed.value, errors |-> << >>]
      ELSE [success |-> FALSE, data |-> NoFormData, errors |-> parsed.issues]

\* split(';').map(trim().toLowerCase()).filter(length > 0)
parseList(envValue) ==
  LET parts == split(envValue, ";")
  IN  filterNonEmpty([i \in 1..Len(parts) |-> toLowerCase(trim(parts[i]))])

\* variant: the content is searched without being lower-cased
containsBannedWords_caseSensitive(data, bannedWordsEnv) ==
  IF bannedWordsEnv = Undefined \/ bannedWordsEnv = Str0 \/ trim(bannedWordsEnv) = Str0
  THEN FALSE
  ELSE LET bannedWords == parseList(bannedWordsEnv)
           contentToCheck == join(<<data.email, data.subject, data.message>>, " ")
       IN  IF Len(bannedWords) = 0 THEN FALSE
           ELSE \E k \in 1..Len(bannedWords) : includes(contentToCheck, bannedWords[k])

\* variant: the fields are joined without a separator
containsBannedWords_noSeparator(data, bannedWordsEnv) ==
  IF bannedWordsEnv = Undefined \/ bannedWordsEnv = Str0 \/ trim(bannedWordsEnv) = Str0
  THEN FALSE
  ELSE LET bannedWords == parseList(bannedWordsEnv)
           contentToCheck ==
             toLowerCase(data.email \o data.subject \o data.message)
       IN  IF Len(bannedWords) = 0 THEN FALSE
           ELSE \E k \in 1..Len(bannedWords) : includes(contentToCheck, bannedWords[k])

containsBannedWords(data, bannedWordsEnv) ==
  IF bannedWordsEnv = Undefined \/ bannedWordsEnv = Str0 \/ trim(bannedWordsEnv) = Str0
  THEN FALSE
  ELSE LET bannedWords == parseList(bannedWordsEnv)
           contentToCheck ==
             toLowerCase(join(<<data.email, data.subject, data.message>>, " "))
       IN  IF Len(bannedWords) = 0 THEN FALSE
           ELSE \E k \in 1..Len(bannedWords) : includes(contentToCheck, bannedWords[k])

\* variant: the credential is compared without regard to letter case
validateApiKey_ignoreCase(provided, expectedApiKey) ==
  IF expectedApiKey = Undefined \/ expectedApiKey = Str0 \/ trim(expectedApiKey) = Str0
  THEN [isValid |-> TRUE, error |-> ""]
  ELSE IF provided = Undefined \/ provided = Str0
  THEN [isValid |-> FALSE,
        error |-> "API key is required. Please provide a valid API key in the X-API-Key header."]
  ELSE IF toLowerCase(provided) # toLowerCase(expectedApiKey)
  THEN [isValid |-> FALSE,
        error |-> "Invalid API key. Please provide a valid API key in the X-API-Key header."]
  ELSE [isValid |-> TRUE, error |-> ""]

\* provided is the X-API-Key header, Undefined when the header is absent
validateApiKey(provided, expectedApiKey) ==
  IF expectedApiKey = Undefined \/ expectedApiKey = Str0 \/ trim(expectedApiKey) = Str0
  THEN [isValid |-> TRUE, error |-> ""]
  ELSE IF provided = Undefined \/ provided = Str0
  THEN [isValid |-> FALSE,
        error |-> "API key is required. Please provide a valid API key in the X-API-Key header."]
  ELSE IF provided # expectedApiKey
  THEN [isValid |-> FALSE,
        error |-> "Invalid API key. Please provide a valid API key in the X-API-Key header."]
  ELSE [isValid |-> TRUE, error |-> ""]

extractEmailDomain(email) ==
  LET atIndex == lastIndexOf(email, "@")
  IN  IF atIndex = -1 \/ atIndex = 0 \/ atIndex = Len(email) - 1 THEN Str0
      ELSE IF includes(SubSeq(email, 1, atIndex), <<"@">>) THEN Str0
      ELSE LET domain == toLowerCase(SubSeq(email, atIndex + 2, Len(email)))
           IN  IF domain = Str0 \/ ~includes(domain, <<".">>)
                  \/ domain[1] = "." \/ domain[Len(domain)] = "."
               THEN Str0
               ELSE domain

parseEmailFilterList(envValue) ==
  IF envValue = Undefined \/ envValue = Str0 \/ trim(envValue) = Str0
  THEN << >>
  ELSE parseList(envValue)

\* variant: a whitelisted domain is admitted before the blacklists are consulted
isEmailAllowed_whitelistFirst(email, domainWhitelist, domainBlacklist, emailBlacklist) ==
  LET emailLower == toLowerCase(email)
      domain == extractEmailDomain(emailLower)
      whitelistedDomains == parseEmailFilterList(domainWhitelist)
      blacklistedDomains == parseEmailFilterList(domainBlacklist)
      blacklistedEmails == parseEmailFilterList(emailBlacklist)
  IN  IF domain = Str0
      THEN [isAllowed |-> FALSE, reason |-> "Invalid email format"]
      ELSE IF Len(whitelistedDomains) > 0 /\ domain \in Range(whitelistedDomains)
      THEN [isAllowed |-> TRUE, reason |-> ""]
      ELSE IF emailLower \in Range(blacklistedEmails)
      THEN [isAllowed |-> FALSE, reason |-> "Email address is blacklisted"]
      ELSE IF domain \in Range(blacklistedDomains)
      THEN [isAllowed |-> FALSE, reason |-> "Email domain is blacklisted"]
      ELSE IF Len(whitelistedDomains) > 0
      THEN [isAllowed |-> FALSE, reason |-> "Email domain is not in whitelist"]
      ELSE [isAllowed |-> TRUE, reason |-> ""]

isEmailAllowed(email, domainWhitelist, domainBlacklist, emailBlacklist) ==
  LET emailLower == toLowerCase(email)
      domain == extractEmailDomain(emailLower)
      whitelistedDomains == parseEmailFilterList(domainWhitelist)
      blacklistedDomains == parseEmailFilterList(domainBlacklist)
      blacklistedEmails == parseEmailFilterList(emailBlacklist)
  IN  IF domain = Str0
      THEN [isAllowed |-> FALSE, reason |-> "Invalid email format"]
      ELSE IF emailLower \in Range(blacklistedEmails)
      THEN [isAllowed |-> FALSE, reason |-> "Email address is blacklisted"]
      ELSE IF domain \in Range(blacklistedDomains)
      THEN [isAllowed |-> FALSE, reason |-> "Email domain is blacklisted"]
      ELSE IF Len(whitelistedDomains) > 0 /\ domain \notin Range(whitelistedDomains)
      THEN [isAllowed |-> FALSE, reason |-> "Email domain is not in whitelist"]
      ELSE [isAllowed |-> TRUE, reason |-> ""]


(***************************************************************************)
(* env-config.ts: build-time constants                                     *)
(***************************************************************************)
sTrue == <<"t", "r", "u", "e">>
sTRUE == <<"T", "R", "U", "E">>
sFalse == <<"f", "a", "l", "s", "e">>
sYes == <<"y", "e", "s">>
sNo == <<"n", "o">>
sOpen == <<"o", "p", "e", "n">>
sClosed == <<"c", "l", "o", "s", "e", "d">>

parseEnvBoolean(envValue, defaultValue) ==
  IF envValue = Undefined \/ envValue = Str0 \/ trim(envValue) = Str0 THEN defaultValue
  ELSE LET normalizedValue == toLowerCase(trim(envValue))
       IN  IF normalizedValue \in {sTrue, <<"1">>, sYes} THEN TRUE
           ELSE IF normalizedValue \in {sFalse, <<"0">>, sNo} THEN FALSE
           ELSE defaultValue

RATE_LIMITING_ENABLED(buildEnv) == parseEnvBoolean(buildEnv.RATE_LIMITING, FALSE)

RATE_LIMIT_REDIS_FAILURE_MODE(buildEnv) ==
  LET envValue == buildEnv.RATE_LIMIT_REDIS_FAILURE_MODE
  IN  IF envValue = Undefined \/ envValue = Str0 \/ trim(envValue) = Str0 THEN "open"
      ELSE LET normalizedValue == toLowerCase(trim(envValue))
           IN  IF normalizedValue = sOpen THEN "open"
               ELSE IF normalizedValue = sClosed THEN "closed"
               ELSE "open"

(***************************************************************************)
(* env-config.ts: CORS headers                                             *)
(***************************************************************************)
sStar == <<"*">>

\* the header set every CORS answer starts from
corsHeaders ==
  [h \in {"Access-Control-Allow-Origin", "Access-Control-Allow-Methods",
          "Access-Control-Allow-Headers", "Access-Control-Max-Age"} |->
     CASE h = "Access-Control-Allow-Origin" -> sStar
       [] h = "Access-Control-Allow-Methods" -> "POST, OPTIONS"
       [] h = "Access-Control-Allow-Headers" -> "Content-Type, Authorization"
       [] h = "Access-Control-Max-Age" -> "86400"]

\* the empty object returned for an origin that is not allowed
NoHeaders == << >>

\* o => o.trim() over the parts of the list
trimAll(parts) == [i \in 1..Len(parts) |-> trim(parts[i])]

\* allowedOrigins defaults to '*' when it is not given; a request origin
\* that is not given or empty is falsy
createCorsHeaders(allowedOrigins, requestOrigin) ==
  LET allowed == IF allowedOrigins = Undefined THEN sStar ELSE allowedOrigins
      given == requestOrigin # Undefined /\ requestOrigin # Str0
      origins == trimAll(split(allowed, ","))
  IN  IF allowed # sStar /\ given
      THEN IF requestOrigin \in Range(origins)
           THEN [corsHeaders EXCEPT !["Access-Control-Allow-Origin"] = requestOrigin]
           ELSE NoHeaders
      ELSE [corsHeaders EXCEPT !["Access-Control-Allow-Origin"] = sStar]

(***************************************************************************)
(* Rate-limit service (UpstashRateLimitService and its factory)            *)
(***************************************************************************)
DimOrder == <<"global", "ip", "email">>
Dims == Range(DimOrder)

\* the value parseInt gives for a string with no leading number
NaN == -1000000

IsDigit(c) == c \in {"0", "1", "2", "3", "4", "5", "6", "7", "8", "9"}

DigitVal(c) ==
  CASE c = "0" -> 0 [] c = "1" -> 1 [] c = "2" -> 2 [] c = "3" -> 3 [] c = "4" -> 4
    [] c = "5" -> 5 [] c = "6" -> 6 [] c = "7" -> 7 [] c = "8" -> 8 [] c = "9" -> 9

RECURSIVE digitsValue(_, _)
digitsValue(s, acc) ==
  IF s # Str0 /\ IsDigit(Head(s)) THEN digitsValue(Tail(s), acc * 10 + DigitVal(Head(s)))
  ELSE acc

\* parseInt(s, 10): leading white space, an optional sign, the longest digit prefix
parseInt(s) ==
  LET t == trimStart(s)
      signed == t # Str0 /\ Head(t) \in {"-", "+"}
      body == IF signed THEN Tail(t) ELSE t
  IN  IF body = Str0 \/ ~IsDigit(Head(body)) THEN NaN
      ELSE IF signed /\ Head(t) = "-" THEN 0 - digitsValue(body, 0)
      ELSE digitsValue(body, 0)

\* env.X || fallback
orDefault(envValue, fallback) ==
  IF envValue = Undefined \/ envValue = Str0 THEN fallback ELSE envValue

\* env.X?.toLowerCase() === 'true'
isTrueString(envValue) == envValue # Undefined /\ toLowerCase(envValue) = sTrue

parseRateLimitConfig(e) ==
  [global |-> [enabled |-> isTrueString(e.RATE_LIMIT_GLOBAL_ENABLED)
                             \/ e.RATE_LIMIT_GLOBAL_ENABLED = Undefined,
               limit |-> parseInt(orDefault(e.RATE_LIMIT_GLOBAL_LIMIT, <<"1", "0">>)),
               window |-> parseInt(orDefault(e.RATE_LIMIT_GLOBAL_WINDOW, <<"3", "6", "0", "0">>))],
   ip |-> [enabled |-> isTrueString(e.RATE_LIMIT_IP_ENABLED),
           limit |-> parseInt(orDefault(e.RATE_LIMIT_IP_LIMIT, <<"5">>)),
           window |-> parseInt(orDefault(e.RATE_LIMIT_IP_WINDOW, <<"3", "6", "0", "0">>))],
   email |-> [enabled |-> isTrueString(e.RATE_LIMIT_EMAIL_ENABLED)
                            \/ e.RATE_LIMIT_EMAIL_ENABLED = Undefined,
              limit |-> parseInt(orDefault(e.RATE_LIMIT_EMAIL_LIMIT, <<"1">>)),
              window |-> parseInt(orDefault(e.RATE_LIMIT_EMAIL_WINDOW, <<"3", "6", "0", "0">>))]]

NoConfig ==
  [d \in Dims |-> [enabled |-> FALSE, limit |-> 0, window |-> 0]]

NoService == [exists |-> FALSE, config |-> NoConfig]

createRateLimitService(e) ==
  IF e.UPSTASH_REDIS_REST_URL \in {Undefined, Str0}
     \/ e.UPSTASH_REDIS_REST_TOKEN \in {Undefined, Str0}
  THEN NoService
  ELSE LET config == parseRateLimitConfig(e)
       IN  IF ~config.global.enabled /\ ~config.ip.enabled /\ ~config.email.enabled
           THEN NoService
           ELSE [exists |-> TRUE, config |-> config]

\* request.headers.get('CF-Connecting-IP'), else the other headers, else 'unknown'
sUnknown == <<"u", "n", "k", "n", "o", "w", "n">>
sAll == <<"a", "l", "l">>

extractRealIP(headers) ==
  IF headers.cfConnectingIP \notin {Undefined, Str0} THEN headers.cfConnectingIP
  ELSE sUnknown

\* Math.floor(now / 1000 / window) * window; a window of 0 or NaN gives NaN
windowStartOf(nowMs, window) ==
  IF window = NaN \/ window = 0 THEN NaN
  ELSE IF window > 0 THEN (nowMs \div (1000 * window)) * window
  ELSE (0 - ((nowMs + 1000 * (0 - window) - 1) \div (1000 * (0 - window)))) * window

\* `golab:${type}:${identifier}:${windowStart}`
keyOf(type, identifier, windowStart) == <<type, identifier, windowStart>>

\* variant: the per-sender counter is keyed by the address as it was typed
identifierOf_caseSensitive(type, ip, email) ==
  CASE type = "global" -> sAll
    [] type = "ip" -> ip
    [] type = "email" -> email

\* the identifier each dimension counts by
identifierOf(type, ip, email) ==
  CASE type = "global" -> sAll
    [] type = "ip" -> ip
    [] type = "email" -> toLowerCase(email)

Absent == -1

\* >=, + and * 1000 on numbers that may be NaN
jsGeq(a, b) == a # NaN /\ b # NaN /\ a >= b
jsPlus(a, b) == IF a = NaN \/ b = NaN THEN NaN ELSE a + b
jsTimes1000(a) == IF a = NaN THEN NaN ELSE a * 1000

\* `Rate limit exceeded for ${type}`
reasonOf(type) ==
  CASE type = "global" -> "Rate limit exceeded for global"
    [] type = "ip" -> "Rate limit exceeded for ip"
    [] type = "email" -> "Rate limit exceeded for email"
Allowed == [allowed |-> TRUE, reason |-> "", resetTime |-> Absent, remaining |-> Absent]

\* variant: the limit itself is still admitted (> in place of >=)
checkLimit_offByOne(type, limit, window, windowStart, got) ==
  IF ~got.ok THEN Allowed
  ELSE IF got.value > limit
  THEN [allowed |-> FALSE, reason |-> reasonOf(type),
        resetTime |-> jsTimes1000(jsPlus(windowStart, window)), remaining |-> 0]
  ELSE [allowed |-> TRUE, reason |-> "", resetTime |-> Absent,
        remaining |-> jsPlus(limit, 0 - got.value)]

\* variant: a failed read denies
checkLimit_failClosed(type, limit, window, windowStart, got) ==
  IF ~got.ok
  THEN [allowed |-> FALSE, reason |-> "Rate limit exceeded", resetTime |-> Absent,
        remaining |-> Absent]
  ELSE IF jsGeq(got.value, limit)
  THEN [allowed |-> FALSE, reason |-> reasonOf(type),
        resetTime |-> jsTimes1000(jsPlus(windowStart, window)), remaining |-> 0]
  ELSE [allowed |-> TRUE, reason |-> "", resetTime |-> Absent,
        remaining |-> jsPlus(limit, 0 - got.value)]

\* checkLimit once redis.get has answered: got.ok is FALSE when the call rejected,
\* got.value is the stored count, 0 standing for a missing key (`|| 0`)
checkLimit(type, limit, window, windowStart, got) ==
  IF ~got.ok THEN Allowed
  ELSE LET current == got.value
       IN  IF jsGeq(current, limit)
           THEN [allowed |-> FALSE,
                 reason |-> reasonOf(type),
                 resetTime |-> jsTimes1000(jsPlus(windowStart, window)),
                 remaining |-> 0]
           ELSE [allowed |-> TRUE, reason |-> "", resetTime |-> Absent,
                 remaining |-> jsPlus(limit, 0 - current)]

\* results.find(result => !result.allowed) over the array in the order pushed
RECURSIVE findFailed(_, _)
findFailed(results, order) ==
  IF order = << >> THEN Allowed
  ELSE IF results[Head(order)].present /\ ~results[Head(order)].result.allowed
  THEN results[Head(order)].result
  ELSE findFailed(results, Tail(order))


(***************************************************************************)
(* attachments.ts                                                          *)
(***************************************************************************)
RESEND_UNSUPPORTED_EXTENSIONS ==
  {<<".", "a", "d", "p">>, <<".", "a", "p", "p">>, <<".", "a", "s", "p">>,
   <<".", "b", "a", "s">>, <<".", "b", "a", "t">>, <<".", "c", "e", "r">>,
   <<".", "c", "h", "m">>, <<".", "c", "m", "d">>, <<".", "c", "o", "m">>,
   <<".", "c", "p", "l">>, <<".", "c", "r", "t">>, <<".", "c", "s", "h">>,
   <<".", "d", "e", "r">>, <<".", "e", "x", "e">>, <<".", "f", "x", "p">>,
   <<".", "g", "a", "d", "g", "e", "t">>, <<".", "h", "l", "p">>, <<".", "h", "t", "a">>,
   <<".", "i", "n", "f">>, <<".", "i", "n", "s">>, <<".", "i", "s", "p">>,
   <<".", "i", "t", "s">>, <<".", "j", "s">>, <<".", "j", "s", "e">>, <<".", "k", "s", "h">>,
   <<".", "l", "i", "b">>, <<".", "l", "n", "k">>, <<".", "m", "a", "d">>,
   <<".", "m", "a", "f">>, <<".", "m", "a", "g">>, <<".", "m", "a", "m">>,
   <<".", "m", "a", "q">>, <<".", "m", "a", "r">>, <<".", "m", "a", "s">>,
   <<".", "m", "a", "t">>, <<".", "m", "a", "u">>, <<".", "m", "a", "v">>,
   <<".", "m", "a", "w">>, <<".", "m", "d", "a">>, <<".", "m", "d", "b">>,
   <<".", "m", "d", "e">>, <<".", "m", "d", "t">>, <<".", "m", "d", "w">>,
   <<".", "m", "d", "z">>, <<".", "m", "s", "c">>, <<".", "m", "s", "h">>,
   <<".", "m", "s", "h", "1">>, <<".", "m", "s", "h", "2">>,
   <<".", "m", "s", "h", "x", "m", "l">>, <<".", "m", "s", "h", "1", "x", "m", "l">>,
   <<".", "m", "s", "h", "2", "x", "m", "l">>, <<".", "m", "s", "i">>, <<".", "m", "s", "p">>,
   <<".", "m", "s", "t">>, <<".", "o", "p", "s">>, <<".", "p", "c", "d">>,
   <<".", "p", "i", "f">>, <<".", "p", "l", "g">>, <<".", "p", "r", "f">>,
   <<".", "p", "r", "g">>, <<".", "r", "e", "g">>, <<".", "s", "c", "f">>,
   <<".", "s", "c", "r">>, <<".", "s", "c", "t">>, <<".", "s", "h", "b">>,
   <<".", "s", "h", "s">>, <<".", "s", "y", "s">>, <<".", "p", "s", "1">>,
   <<".", "p", "s", "1", "x", "m", "l">>, <<".", "p", "s", "2">>,
   <<".", "p", "s", "2", "x", "m", "l">>, <<".", "p", "s", "c", "1">>,
   <<".", "p", "s", "c", "2">>, <<".", "t", "m", "p">>, <<".", "u", "r", "l">>,
   <<".", "v", "b">>, <<".", "v", "b", "e">>, <<".", "v", "b", "s">>, <<".", "v", "p", "s">>,
   <<".", "v", "s", "m", "a", "c", "r", "o", "s">>, <<".", "v", "s", "s">>,
   <<".", "v", "s", "t">>, <<".", "v", "s", "w">>, <<".", "v", "x", "d">>, <<".", "w", "s">>,
   <<".", "w", "s", "c">>, <<".", "w", "s", "f">>, <<".", "w", "s", "h">>,
   <<".", "x", "n", "k">>}

\* parseList of attachments.ts: [] for an unset or empty value
attachmentsParseList(envValue) ==
  IF envValue = Undefined \/ envValue = Str0 THEN << >> ELSE parseList(envValue)

isAttachmentsEnabled(e) == toLowerCase(orDefault(e.ATTACHMENTS_ENABLED, Str0)) = sTrue

DEFAULT_MAX == 10485760

getAttachmentsConfig(e) ==
  LET raw == e.ATTACHMENTS_MAX_FILE_SIZE_BYTES
      parsed == IF raw = Undefined \/ raw = Str0 THEN NaN ELSE parseInt(trim(raw))
  IN  [enabled |-> isAttachmentsEnabled(e),
       maxSizeBytes |-> IF parsed # NaN /\ parsed > 0 THEN parsed ELSE DEFAULT_MAX,
       whitelist |-> attachmentsParseList(e.ATTACHMENTS_MIME_WHITELIST),
       blacklist |-> attachmentsParseList(e.ATTACHMENTS_MIME_BLACKLIST)]

Base64Chars ==
  {"A", "B", "C", "D", "E", "F", "G", "H", "I", "J", "K", "L", "M", "N", "O", "P", "Q", "R",
   "S", "T", "U", "V", "W", "X", "Y", "Z", "a", "b", "c", "d", "e", "f", "g", "h", "i", "j",
   "k", "l", "m", "n", "o", "p", "q", "r", "s", "t", "u", "v", "w", "x", "y", "z", "0", "1",
   "2", "3", "4", "5", "6", "7", "8", "9", "+", "/"}

\* b64.replace(/\s+/g, '')
removeSpaces(str) == SelectSeq(str, LAMBDA c : ~IsSpace(c))

\* the number of '=' the string ends with
RECURSIVE trailingEquals(_)
trailingEquals(str) ==
  IF str # Str0 /\ str[Len(str)] = "=" THEN 1 + trailingEquals(SubSeq(str, 1, Len(str) - 1))
  ELSE 0

\* variant: the padding is not taken off the decoded length
base64ByteLength_paddingCounted(b64) ==
  LET str == removeSpaces(b64)
      tail == trailingEquals(str)
  IN  IF tail > 2 \/ \E i \in 1..(Len(str) - tail) : str[i] \notin Base64Chars THEN -1
      ELSE IF Len(str) % 4 # 0 THEN -1
      ELSE (Len(str) * 3) \div 4

\* decoded length of a base64 string, -1 when /^[A-Za-z0-9+/]*={0,2}$/ does
\* not match or the length is not a multiple of 4
base64ByteLength(b64) ==
  LET str == removeSpaces(b64)
      tail == trailingEquals(str)
  IN  IF tail > 2 \/ \E i \in 1..(Len(str) - tail) : str[i] \notin Base64Chars THEN -1
      ELSE IF Len(str) % 4 # 0 THEN -1
      ELSE (Len(str) * 3) \div 4 - tail

getExtension(filename) ==
  LET idx == lastIndexOf(filename, ".")
  IN  IF idx = -1 \/ idx = Len(filename) - 1 THEN Str0
      ELSE toLowerCase(SubSeq(filename, idx + 1, Len(filename)))

isUnsupportedExtension(filename) ==
  LET ext == getExtension(filename)
  IN  ext # Str0 /\ ext \in RESEND_UNSUPPORTED_EXTENSIONS

\* Array.prototype.includes
inList(list, x) == \E i \in DOMAIN list : list[i] = x

\* variant: a whitelisted MIME type is allowed before the blacklist is consulted
isMimeAllowed_whitelistWins(mime, whitelist, blacklist) ==
  LET m == toLowerCase(trim(mime))
  IN  IF m = Str0 THEN FALSE
      ELSE IF Len(whitelist) > 0 /\ inList(whitelist, m) THEN TRUE
      ELSE IF inList(blacklist, m) THEN FALSE
      ELSE IF Len(whitelist) > 0 THEN FALSE
      ELSE TRUE

isMimeAllowed(mime, whitelist, blacklist) ==
  LET m == toLowerCase(trim(mime))
  IN  IF m = Str0 THEN FALSE
      ELSE IF inList(blacklist, m) THEN FALSE
      ELSE IF Len(whitelist) > 0 /\ ~inList(whitelist, m) THEN FALSE
      ELSE TRUE

NoAttachment == [filename |-> Str0, contentType |-> Str0, content |-> Str0]

\* typeof obj[key] === 'string' ? obj[key] : ''
stringField(value) == IF value = Undefined THEN Str0 ELSE value

validateAndNormalizeAttachment(candidate, config) ==
  IF candidate.kind # "object"
  THEN [ok |-> FALSE, value |-> NoAttachment,
        errors |-> <<Issue("attachment", "Invalid attachment object")>>]
  ELSE
    LET filename == trim(stringField(candidate.filename))
        contentType == toLowerCase(trim(stringField(candidate.contentType)))
        content == trim(stringField(candidate.content))
        missing ==
          (IF filename = Str0
           THEN <<Issue("attachment.filename", "Filename is required")>> ELSE << >>)
          \o (IF contentType = Str0
              THEN <<Issue("attachment.contentType", "Content type (MIME) is required")>>
              ELSE << >>)
          \o (IF content = Str0
              THEN <<Issue("attachment.content", "Base64 content is required")>> ELSE << >>)
        size == base64ByteLength(content)
        errors ==
          (IF isUnsupportedExtension(filename)
           THEN <<Issue("attachment.filename",
                        "File extension is not supported by the email provider")>>
           ELSE << >>)
          \o (IF isMimeAllowed(contentType, config.whitelist, config.blacklist) THEN << >>
              ELSE IF inList(config.blacklist, contentType)
              THEN <<Issue("attachment.contentType", "MIME type is blacklisted")>>
              ELSE IF Len(config.whitelist) > 0 /\ ~inList(config.whitelist, contentType)
              THEN <<Issue("attachment.contentType", "MIME type is not in whitelist")>>
              ELSE <<Issue("attachment.contentType", "Invalid MIME type")>>)
          \o (IF size < 0
              THEN <<Issue("attachment.content", "Invalid Base64 content")>>
              ELSE IF size > config.maxSizeBytes
              THEN <<Issue("attachment.content",
                           <<"Attachment ", "exceeds maximum size", " of ",
                             config.maxSizeBytes, " bytes">>)>>
              ELSE << >>)
    IN  IF Len(missing) > 0 THEN [ok |-> FALSE, value |-> NoAttachment, errors |-> missing]
        ELSE IF Len(errors) > 0 THEN [ok |-> FALSE, value |-> NoAttachment, errors |-> errors]
        ELSE [ok |-> TRUE,
              value |-> [filename |-> filename, contentType |-> contentType,
                         content |-> content],
              errors |-> << >>]

(***************************************************************************)
(* Requests and deployments the model draws from                           *)
(***************************************************************************)
eA == <<"a", "@", "b", ".", "c", "c">>
eAUpper == <<"A", "@", "b", ".", "c", "c">>
eC == <<"c", "@", "b", ".", "c", "c">>
eS == <<"s", "@", "b", ".", "c", "c">>
eX == <<"a", "@", "x", ".", "c", "c">>
eBad == <<"a", "b">>

subjOk == <<"a", "b">>
subjBanned == <<"x", "X">>
msgOk == <<"o", "k">>
msgBanned == <<"o", "x", "X", "o">>
msgShort == <<"o">>
msgLong == <<"o", "k", "o", "k", "o">>
msgPadded == <<" ", "o", " ">>

\* no 'attachment' key in the body
NoCandidate ==
  [kind |-> "absent", filename |-> Undefined, contentType |-> Undefined, content |-> Undefined]

\* { filename, contentType, content } under the key 'attachment'
Candidate(f, t, c) == [kind |-> "object", filename |-> f, contentType |-> t, content |-> c]

Body(e, sub, m) ==
  [kind |-> "object", email |-> e, subject |-> sub, message |-> m, extra |-> FALSE,
   attachment |-> NoCandidate]

\* a body that is not an object of the schema: unparseable, a falsy JSON
\* value (null, 0, false, ""), or a truthy non-object
OtherBody(k) ==
  [kind |-> k, email |-> Str0, subject |-> Str0, message |-> Str0, extra |-> FALSE,
   attachment |-> NoCandidate]

\* submissions that carry an attachment: a small JSON file, and a script
AttachmentBodies ==
  {[Body(eA, subjOk, msgOk) EXCEPT !.attachment = Candidate(f, <<"a", "/", "j">>, <<"e", "3", "0", "=">>)] :
      f \in {<<"a", ".", "t">>, <<"a", ".", "j", "s">>}}

ValidBodies == {Body(eA, subjOk, msgOk), Body(eAUpper, subjOk, msgOk), Body(eC, subjOk, msgOk)}

Bodies ==
  ValidBodies
  \cup {Body(eS, subjOk, msgOk), Body(eX, subjOk, msgOk), Body(eA, subjOk, msgBanned),
        Body(eX, subjBanned, msgOk), Body(eBad, subjOk, msgOk), Body(eA, subjOk, msgShort),
        Body(eA, subjOk, msgLong), Body(eA, Str0, msgOk), Body(eA, subjOk, msgPadded),
        [Body(eA, subjOk, msgOk) EXCEPT !.extra = TRUE],
        OtherBody("malformed"), OtherBody("falsy"), OtherBody("nonobject")}
  \cup AttachmentBodies

keyK == <<"k">>
keyKUpper == <<"K">>
ip1 == <<"1">>
ip2 == <<"2">>

Request(key, ip, body) ==
  [apiKey |-> key, headers |-> [cfConnectingIP |-> ip], body |-> body]

Requests ==
  {Request(keyK, ip1, b) : b \in Bodies}
  \cup {Request(k, ip1, b) : k \in {Undefined, keyKUpper},
                             b \in {Body(eA, subjOk, msgOk), Body(eBad, subjOk, msgOk),
                                    OtherBody("malformed")}}
  \cup {Request(keyK, i, b) : i \in {ip2, Undefined}, b \in {Body(eA, subjOk, msgOk)}}

\* the requests clients send to a rate-limited deployment: one that passes
\* every gate, and one request for each gate to stop
RatePool ==
  {Request(keyK, ip1, Body(eA, subjOk, msgOk)),
   Request(Undefined, ip1, Body(eA, subjOk, msgOk)),
   Request(keyK, ip1, OtherBody("malformed")),
   Request(keyK, ip1, Body(eBad, subjOk, msgOk)),
   Request(keyK, ip1, Body(eA, subjOk, msgBanned)),
   Request(keyK, ip1, Body(eS, subjOk, msgOk))}

\* two clients at different addresses whose sender addresses differ in
\* letter case only
CasePool ==
  {Request(keyK, ip1, Body(eA, subjOk, msgOk)),
   Request(keyK, ip2, Body(eAUpper, subjOk, msgOk))}

\* the requests clients send while the counter store is unreliable
FaultPool ==
  {Request(keyK, ip1, Body(eA, subjOk, msgOk)),
   Request(keyK, ip1, Body(eA, subjOk, msgBanned))}

NoRequest == Request(Undefined, Undefined, OtherBody("none"))

\* the filter and credential settings of a deployment
PlainFilters ==
  [API_KEY |-> Undefined, BANNED_WORDS |-> Undefined, EMAIL_DOMAIN_WHITELIST |-> Undefined,
   EMAIL_DOMAIN_BLACKLIST |-> Undefined, EMAIL_ADDRESS_BLACKLIST |-> Undefined]

\* banned words only: one that occurs in sender addresses, one in messages
WordFilters == [PlainFilters EXCEPT !.BANNED_WORDS = <<"A", "@", ";", "x", "x">>]

\* a credential of white space only
BlankKeyFilters == [PlainFilters EXCEPT !.API_KEY = <<" ">>]

StrictFilters ==
  [API_KEY |-> keyK,
   BANNED_WORDS |-> <<" ", "X", "x", " ", ";", " ", ";", "s", "b">>,
   EMAIL_DOMAIN_WHITELIST |-> <<"b", ".", "c", "c", ";", "X", ".", "c", "c">>,
   EMAIL_DOMAIN_BLACKLIST |-> <<"x", ".", "c", "c">>,
   EMAIL_ADDRESS_BLACKLIST |-> <<"S", "@", "b", ".", "c", "c">>]

sUrl == <<"u">>
sToken == <<"t">>

Digits(n) == CASE n = 1 -> <<"1">> [] n = 2 -> <<"2">> [] n = 3 -> <<"3">> [] n = 4 -> <<"4">>

\* rate-limit settings: which dimensions are on, the largest limit for the
\* global dimension and limit l for the other two, a global window of two
\* seconds and windows of one second for the other two
RateSettings(l) ==
  {[RATE_LIMIT_GLOBAL_ENABLED |-> g, RATE_LIMIT_IP_ENABLED |-> i, RATE_LIMIT_EMAIL_ENABLED |-> e,
    RATE_LIMIT_GLOBAL_LIMIT |-> Digits(MaxLimit), RATE_LIMIT_IP_LIMIT |-> Digits(l),
    RATE_LIMIT_EMAIL_LIMIT |-> Digits(l),
    RATE_LIMIT_GLOBAL_WINDOW |-> <<"2">>, RATE_LIMIT_IP_WINDOW |-> <<"1">>,
    RATE_LIMIT_EMAIL_WINDOW |-> <<"1">>] :
      g \in {sFalse, Undefined}, i \in {sTrue, Undefined}, e \in {sFalse, sTRUE}}

NoRateSettings ==
  [RATE_LIMIT_GLOBAL_ENABLED |-> Undefined, RATE_LIMIT_IP_ENABLED |-> Undefined,
   RATE_LIMIT_EMAIL_ENABLED |-> Undefined, RATE_LIMIT_GLOBAL_LIMIT |-> Digits(MaxLimit),
   RATE_LIMIT_IP_LIMIT |-> Undefined, RATE_LIMIT_EMAIL_LIMIT |-> Undefined,
   RATE_LIMIT_GLOBAL_WINDOW |-> <<"1">>, RATE_LIMIT_IP_WINDOW |-> Undefined,
   RATE_LIMIT_EMAIL_WINDOW |-> <<"1">>]

Merge(f, g) == [k \in DOMAIN f \cup DOMAIN g |-> IF k \in DOMAIN f THEN f[k] ELSE g[k]]

\* attachments left at their default (disabled), and switched on with a
\* whitelist that holds the MIME type of the attached JSON file
NoAttachmentSettings ==
  [ATTACHMENTS_ENABLED |-> Undefined, ATTACHMENTS_MAX_FILE_SIZE_BYTES |-> Undefined,
   ATTACHMENTS_MIME_WHITELIST |-> Undefined, ATTACHMENTS_MIME_BLACKLIST |-> Undefined]

AttachmentSettings ==
  [NoAttachmentSettings EXCEPT !.ATTACHMENTS_ENABLED = sTrue,
                               !.ATTACHMENTS_MIME_WHITELIST = <<"a", "/", "j", ";", "t", "/", "p">>]

Env(filters, rate, autoReply, url, token) ==
  Merge(filters, Merge(rate,
    [ENABLE_AUTO_REPLY |-> autoReply, UPSTASH_REDIS_REST_URL |-> url,
     UPSTASH_REDIS_REST_TOKEN |-> token,
     ATTACHMENTS_ENABLED |-> NoAttachmentSettings.ATTACHMENTS_ENABLED,
     ATTACHMENTS_MAX_FILE_SIZE_BYTES |-> NoAttachmentSettings.ATTACHMENTS_MAX_FILE_SIZE_BYTES,
     ATTACHMENTS_MIME_WHITELIST |-> NoAttachmentSettings.ATTACHMENTS_MIME_WHITELIST,
     ATTACHMENTS_MIME_BLACKLIST |-> NoAttachmentSettings.ATTACHMENTS_MIME_BLACKLIST]))

BuildEnv(rl, mode) == [RATE_LIMITING |-> rl, RATE_LIMIT_REDIS_FAILURE_MODE |-> mode]

Scenario(e, b, requests, storeFails) ==
  [env |-> e, buildEnv |-> b, pool |-> requests, faulty |-> storeFails]

\* deployments without an active rate limiter: not built in, switched off, or
\* built in without the URL or without the token of a store
GateScenarios ==
  {Scenario(Env(f, NoRateSettings, a, ub[1], ub[2]), BuildEnv(ub[3], Undefined),
            Requests, FALSE) :
      f \in {PlainFilters, StrictFilters, WordFilters}, a \in {Undefined, sTRUE, sFalse},
      ub \in {<<sUrl, sToken, Undefined>>, <<sUrl, sToken, sFalse>>,
              <<Undefined, sToken, sTrue>>, <<sUrl, Str0, sTrue>>}}
  \cup {Scenario(Env(BlankKeyFilters, NoRateSettings, Undefined, sUrl, sToken),
                  BuildEnv(Undefined, Undefined), Requests, FALSE)}
  \cup {Scenario(Merge(AttachmentSettings,
                        Env(f, NoRateSettings, Undefined, Undefined, Undefined)),
                  BuildEnv(Undefined, Undefined), Requests, FALSE) :
          f \in {PlainFilters, StrictFilters}}

\* deployments with the rate limiter built in and a reliable store
RateScenarios ==
  {Scenario(Env(StrictFilters, r, sTRUE, sUrl, sToken), BuildEnv(sTrue, Undefined),
            RatePool, FALSE) :
      r \in UNION {RateSettings(l) : l \in 1..MaxLimit}}

\* deployments whose store may fail: the global and per-sender dimensions
\* with the failure mode left at its default, the global dimension alone
\* with failure mode 'closed'
FaultScenario(mode, emailEnabled) ==
  Scenario(Env(StrictFilters,
               CHOOSE x \in RateSettings(1) : /\ x.RATE_LIMIT_GLOBAL_ENABLED = Undefined
                                              /\ x.RATE_LIMIT_IP_ENABLED = Undefined
                                              /\ x.RATE_LIMIT_EMAIL_ENABLED = emailEnabled,
               sFalse, sUrl, sToken),
           BuildEnv(sTrue, mode), FaultPool, TRUE)

FaultScenarios == {FaultScenario(Undefined, sTRUE), FaultScenario(sClosed, sFalse)}

Scenarios == GateScenarios \cup RateScenarios \cup FaultScenarios

(***************************************************************************)
(* State                                                                   *)
(***************************************************************************)
\* handler slots; the ones in `active` serve requests
NumProcs == 2
Procs == 1..NumProcs

VARIABLES
  env,       \* c.env, the runtime environment of the deployment
  buildEnv,  \* the values injected at build time
  active,    \* the handler slots that serve requests
  pool,      \* the requests clients send
  faulty,    \* whether calls to the counter store may fail
  now,       \* Date.now(), milliseconds
  redis,     \* the counter store: key -> [count, expireAt]
  proc,      \* per slot: the invocation of handleContactSubmission in progress
  served,    \* requests that reached the rate limiter so far
  sentLog,   \* history: the sends that succeeded under a rate limiter, counted
             \* by client address, sender and time
  call,      \* a direct call of one of the exported functions: its name, its
             \* arguments, and its result once it has returned
  lastCheck  \* history: what checkRateLimit last returned to an earlier
             \* request, kept until a counter is incremented

vars ==
  <<env, buildEnv, active, pool, faulty, now, redis, proc, served, sentLog, call, lastCheck>>

NoCall == [fn |-> "none", args |-> << >>, returned |-> FALSE, result |-> << >>]

NoLastCheck == [present |-> FALSE]

NoResponse == [status |-> 0, success |-> FALSE, error |-> "", details |-> << >>]

NoCheck ==
  [present |-> FALSE, pending |-> FALSE, windowStart |-> 0, failed |-> FALSE,
   result |-> Allowed]
NoIncr == [pending |-> FALSE, windowStart |-> 0, ttl |-> 0, failed |-> FALSE]

\* the arguments of sendEmail: the form data and the optional attachment
NoSendArgs == [data |-> NoFormData, attachment |-> Undefined]

Idle ==
  [pc |-> "idle", req |-> NoRequest, formData |-> NoFormData,
   checkedAt |-> 0, checks |-> [d \in Dims |-> NoCheck],
   lastSettled |-> "none", incrementedAt |-> 0, incrs |-> [d \in Dims |-> NoIncr],
   rateLimitResult |-> Allowed, sendArgs |-> NoSendArgs, emailSent |-> "none",
   autoReplySent |-> "none", response |-> NoResponse, trace |-> << >>]

\* createRateLimitService reads the environment only: the service of each
\* deployment, built once
serviceOfEnv == [e \in {s.env : s \in Scenarios} |-> createRateLimitService(e)]

\* the service the handler obtains for a request (null when not built in)
rateLimitServiceOf ==
  IF ~RATE_LIMITING_ENABLED(buildEnv) THEN NoService
  ELSE IF env \in DOMAIN serviceOfEnv THEN serviceOfEnv[env]
  ELSE createRateLimitService(env)

\* redis.get: the stored count, null (read as 0) for a missing key
redisGet(key) == IF key \in DOMAIN redis THEN redis[key].count ELSE 0

\* variant: the time to live is set when the key is created and left alone
\* by later increments
redisIncrExpire_keepExpiry(store, key, ttl, nowMs) ==
  [k \in DOMAIN store \cup {key} |->
     IF k = key
     THEN [count |-> (IF key \in DOMAIN store THEN store[key].count ELSE 0) + 1,
           expireAt |-> IF key \in DOMAIN store THEN store[key].expireAt
                        ELSE nowMs + ttl * 1000]
     ELSE store[k]]

\* pipeline incr + expire
redisIncrExpire(store, key, ttl, nowMs) ==
  [k \in DOMAIN store \cup {key} |->
     IF k = key
     THEN [count |-> (IF key \in DOMAIN store THEN store[key].count ELSE 0) + 1,
           expireAt |-> nowMs + ttl * 1000]
     ELSE store[k]]

\* keys whose time to live has run out are gone
expire(store, nowMs) ==
  [k \in {j \in DOMAIN store : store[j].expireAt > nowMs} |-> store[k]]

(***************************************************************************)
(* handleContactSubmission, cut at its awaits                              *)
(***************************************************************************)
stage(h, name) == [h EXCEPT !.trace = @ \o <<name>>]

\* createErrorResponse / createSuccessResponse: the handler returns
respond(h, status, error, details) ==
  [stage(h, "RESPOND") EXCEPT
     !.pc = "done",
     !.response = [status |-> status, success |-> (status = 200),
                   error |-> error, details |-> details]]

errFailedToSend == "Failed to send email. Please try again later."
errInternal == "Internal server error"
errBanned == "Message contains inappropriate content and cannot be sent"
errRateLimit == "Rate limit exceeded"
msgTooMany == "Too many requests. Please try again later."

\* variant: an auto-reply that throws reaches the catch-all
afterAutoReply_throwFails(h, outcome) ==
  IF outcome = "throws"
  THEN respond([h EXCEPT !.autoReplySent = outcome], 500, errInternal, << >>)
  ELSE respond([h EXCEPT !.autoReplySent = outcome], 200, "", << >>)

\* lines 158-199: the auto-reply has settled; whatever it did, success
afterAutoReply(h, outcome) ==
  respond([h EXCEPT !.autoReplySent = outcome], 200, "", << >>)

\* variant: the auto-reply is sent whatever ENABLE_AUTO_REPLY holds
afterIncrement_always(h) == [stage(h, "AUTO_REPLY") EXCEPT !.pc = "autoreply"]

\* variant: a failed increment surfaces as an error of the request
afterIncrement_failOnError(h) ==
  IF \E d \in Dims : h.incrs[d].failed THEN respond(h, 500, errInternal, << >>)
  ELSE IF isTrueString(env.ENABLE_AUTO_REPLY)
  THEN [stage(h, "AUTO_REPLY") EXCEPT !.pc = "autoreply"]
  ELSE respond(h, 200, "", << >>)

\* lines 155-157: the auto-reply call when enabled, else the success response
afterIncrement(h) ==
  IF isTrueString(env.ENABLE_AUTO_REPLY)
  THEN [stage(h, "AUTO_REPLY") EXCEPT !.pc = "autoreply"]
  ELSE respond(h, 200, "", << >>)

\* incrementCounters that starts a pipeline for every dimension, enabled or not
incrementCounters_allDimensions(h, service, nowMs) ==
  LET started ==
        [d \in Dims |->
           [pending |-> TRUE,
            windowStart |-> windowStartOf(nowMs, service.config[d].window),
            ttl |-> service.config[d].window + TTL_BUFFER, failed |-> FALSE]]
  IN  [stage(h, "RATE_LIMIT_INCREMENT") EXCEPT !.incrs = started, !.incrementedAt = nowMs,
                                              !.pc = "incrementing"]

\* incrementCounters that writes to the windows the check of the request read
incrementCounters_checkedWindow(h, service, nowMs) ==
  LET started ==
        [d \in Dims |->
           IF service.config[d].enabled
           THEN [pending |-> TRUE,
                 windowStart |-> h.checks[d].windowStart,
                 ttl |-> service.config[d].window + TTL_BUFFER, failed |-> FALSE]
           ELSE NoIncr]
      h1 == [stage(h, "RATE_LIMIT_INCREMENT") EXCEPT !.incrs = started, !.incrementedAt = nowMs]
  IN  IF \E d \in Dims : started[d].pending
      THEN [h1 EXCEPT !.pc = "incrementing"]
      ELSE afterIncrement(h1)

\* incrementCounters whose promise the handler does not await
incrementCounters_notAwaited(h, service, nowMs) ==
  LET started ==
        [d \in Dims |->
           IF service.config[d].enabled
           THEN [pending |-> TRUE,
                 windowStart |-> windowStartOf(nowMs, service.config[d].window),
                 ttl |-> service.config[d].window + TTL_BUFFER, failed |-> FALSE]
           ELSE NoIncr]
  IN  afterIncrement([stage(h, "RATE_LIMIT_INCREMENT") EXCEPT !.incrs = started,
                                                              !.incrementedAt = nowMs])

\* incrementCounters up to its await: const now = Date.now(), then one
\* pipeline per enabled dimension
incrementCounters(h, service, nowMs) ==
  LET started ==
        [d \in Dims |->
           IF service.config[d].enabled
           THEN [pending |-> TRUE,
                 windowStart |-> windowStartOf(nowMs, service.config[d].window),
                 ttl |-> service.config[d].window + TTL_BUFFER, failed |-> FALSE]
           ELSE NoIncr]
      h1 == [stage(h, "RATE_LIMIT_INCREMENT") EXCEPT !.incrs = started, !.incrementedAt = nowMs]
  IN  IF \E d \in Dims : started[d].pending
      THEN [h1 EXCEPT !.pc = "incrementing"]
      ELSE afterIncrement(h1)

\* variant: a send that throws is reported like a send that returns false
afterSend_throwAsFalse(h, outcome, nowMs) ==
  LET h1 == [h EXCEPT !.emailSent = outcome]
  IN  IF outcome \in {"throws", "false"} THEN respond(h1, 500, errFailedToSend, << >>)
      ELSE IF RATE_LIMITING_ENABLED(buildEnv) /\ rateLimitServiceOf.exists
      THEN incrementCounters(h1, rateLimitServiceOf, nowMs)
      ELSE afterIncrement(h1)

\* variant: the result of the send is not tested
afterSend_ignoreFalse(h, outcome, nowMs) ==
  LET h1 == [h EXCEPT !.emailSent = outcome]
  IN  IF outcome = "throws" THEN respond(h1, 500, errInternal, << >>)
      ELSE IF RATE_LIMITING_ENABLED(buildEnv) /\ rateLimitServiceOf.exists
      THEN incrementCounters(h1, rateLimitServiceOf, nowMs)
      ELSE afterIncrement(h1)

\* variant: an exception of sendEmail escapes the handler, which returns nothing
afterSend_throwEscapes(h, outcome, nowMs) ==
  LET h1 == [h EXCEPT !.emailSent = outcome]
  IN  IF outcome = "throws" THEN [h1 EXCEPT !.pc = "crashed"]
      ELSE IF outcome = "false" THEN respond(h1, 500, errFailedToSend, << >>)
      ELSE IF RATE_LIMITING_ENABLED(buildEnv) /\ rateLimitServiceOf.exists
      THEN incrementCounters(h1, rateLimitServiceOf, nowMs)
      ELSE afterIncrement(h1)

\* lines 140-153: what follows the answer of sendEmail
afterSend(h, outcome, nowMs) ==
  LET h1 == [h EXCEPT !.emailSent = outcome]
  IN  IF outcome = "throws" THEN respond(h1, 500, errInternal, << >>)
      ELSE IF outcome = "false" THEN respond(h1, 500, errFailedToSend, << >>)
      ELSE IF RATE_LIMITING_ENABLED(buildEnv) /\ rateLimitServiceOf.exists
      THEN incrementCounters(h1, rateLimitServiceOf, nowMs)
      ELSE afterIncrement(h1)

\* lines 136-138: the call of emailService.sendEmail; the order in which the
\* reads of the check were answered (lastSettled) is kept for a denial only
callSendEmail(h) ==
  [stage(h, "SEND") EXCEPT !.pc = "sending", !.lastSettled = "none",
                           !.sendArgs = [data |-> h.formData, attachment |-> Undefined]]

\* lines 112-134: what follows the answer of checkRateLimit
afterRateLimitCheck(h, result) ==
  LET h1 == [h EXCEPT !.rateLimitResult = result]
  IN  IF ~result.allowed
      THEN respond(h1, 429, errRateLimit,
                   <<Issue("rate_limit",
                           IF result.reason # "" THEN result.reason ELSE msgTooMany)>>)
      ELSE callSendEmail(h1)

\* variant: a read that fails rejects Promise.all, and the check allows
checkRateLimitResult_rejectAll(checks) ==
  IF \E d \in Dims : checks[d].present /\ checks[d].failed THEN Allowed
  ELSE findFailed(checks, DimOrder)

\* variant: the denial of the per-sender dimension is looked for first
checkRateLimitResult_emailFirst(checks) == findFailed(checks, <<"email", "ip", "global">>)

\* checkRateLimit once every check has settled (Promise.all, then find)
checkRateLimitResult(checks) == findFailed(checks, DimOrder)

\* checkRateLimit up to its await: one redis.get per enabled dimension
checkRateLimit(h, service, nowMs) ==
  LET started ==
        [d \in Dims |->
           IF service.config[d].enabled
           THEN [present |-> TRUE, pending |-> TRUE,
                 windowStart |-> windowStartOf(nowMs, service.config[d].window),
                 failed |-> FALSE, result |-> Allowed]
           ELSE NoCheck]
      h1 == [stage(h, "RATE_LIMIT_CHECK") EXCEPT !.checks = started, !.checkedAt = nowMs]
  IN  IF \E d \in Dims : started[d].present
      THEN [h1 EXCEPT !.pc = "checking"]
      ELSE afterRateLimitCheck(h1, Allowed)

\* variant: the service is consulted whether or not rate limiting is built in
rateLimitStage_ignoreBuildFlag(h, nowMs) ==
  IF createRateLimitService(env).exists
  THEN checkRateLimit(h, createRateLimitService(env), nowMs)
  ELSE callSendEmail(h)

\* lines 103-110
rateLimitStage(h, nowMs) ==
  IF RATE_LIMITING_ENABLED(buildEnv) /\ rateLimitServiceOf.exists
  THEN checkRateLimit(h, rateLimitServiceOf, nowMs)
  ELSE callSendEmail(h)

\* variant: the result of the email filter is logged but does not stop the request
emailFilterStage_noStop(h, nowMs) == rateLimitStage(stage(h, "IDENTITY_FILTER"), nowMs)

\* lines 78-101
emailFilterStage(h, nowMs) ==
  LET emailFilterResult ==
        isEmailAllowed(h.formData.email, env.EMAIL_DOMAIN_WHITELIST,
                       env.EMAIL_DOMAIN_BLACKLIST, env.EMAIL_ADDRESS_BLACKLIST)
      h1 == stage(h, "IDENTITY_FILTER")
  IN  IF ~emailFilterResult.isAllowed
      THEN respond(h1, 400, "Email address is not allowed",
                   <<Issue("email", emailFilterResult.reason)>>)
      ELSE rateLimitStage(h1, nowMs)

\* variant: the email filter is consulted before the banned words
bannedWordsStage_emailFilterFirst(h, nowMs) ==
  LET h1 == stage(h, "CONTENT_FILTER")
      emailFilterResult ==
        isEmailAllowed(h.formData.email, env.EMAIL_DOMAIN_WHITELIST,
                       env.EMAIL_DOMAIN_BLACKLIST, env.EMAIL_ADDRESS_BLACKLIST)
  IN  IF ~emailFilterResult.isAllowed
      THEN respond(h1, 400, "Email address is not allowed",
                   <<Issue("email", emailFilterResult.reason)>>)
      ELSE IF containsBannedWords(h.formData, env.BANNED_WORDS)
      THEN respond(h1, 400, errBanned, << >>)
      ELSE emailFilterStage(h1, nowMs)

\* lines 61-76
bannedWordsStage(h, nowMs) ==
  LET h1 == stage(h, "CONTENT_FILTER")
  IN  IF containsBannedWords(h.formData, env.BANNED_WORDS)
      THEN respond(h1, 400, errBanned, << >>)
      ELSE emailFilterStage(h1, nowMs)

\* lines 46-59
validateStage(h, nowMs) ==
  LET validation == validateContactForm(h.req.body)
      h1 == stage(h, "VALIDATE")
  IN  IF ~validation.success
      THEN respond(h1, 400, "Validation failed", validation.errors)
      ELSE bannedWordsStage([h1 EXCEPT !.formData = validation.data], nowMs)

\* lines 34-44: c.req.json().catch(() => null), then the falsy test
jsonStage(h, nowMs) ==
  LET h1 == stage(h, "JSON_PARSE")
  IN  IF h.req.body.kind \in {"malformed", "falsy"}
      THEN respond(h1, 400, "Invalid JSON payload", << >>)
      ELSE validateStage(h1, nowMs)

\* variant: the body is parsed before the API key is looked at
authStage_parseFirst(h, nowMs) ==
  LET apiKeyValidation == validateApiKey(h.req.apiKey, env.API_KEY)
      h1 == stage(h, "AUTH")
  IN  IF h.req.body.kind \in {"malformed", "falsy"}
      THEN respond(h1, 400, "Invalid JSON payload", << >>)
      ELSE IF ~apiKeyValidation.isValid
      THEN respond(h1, 401, "Unauthorized",
                   <<Issue("authentication", apiKeyValidation.error)>>)
      ELSE jsonStage(h1, nowMs)

\* lines 22-32
authStage(h, nowMs) ==
  LET apiKeyValidation == validateApiKey(h.req.apiKey, env.API_KEY)
      h1 == stage(h, "AUTH")
  IN  IF ~apiKeyValidation.isValid
      THEN respond(h1, 401, "Unauthorized",
                   <<Issue("authentication", apiKeyValidation.error)>>)
      ELSE jsonStage(h1, nowMs)

handleContactSubmission(r, nowMs) == authStage([Idle EXCEPT !.req = r], nowMs)

(***************************************************************************)
(* Actions                                                                 *)
(***************************************************************************)
Init ==
  /\ \E s \in Scenarios :
       env = s.env /\ buildEnv = s.buildEnv /\ pool = s.pool /\ faulty = s.faulty
  /\ active = {1}   \* requests are handled one at a time
  /\ now = 0
  /\ redis = << >>
  /\ proc = [p \in Procs |-> Idle]
  /\ served = 0
  /\ sentLog = << >>
  /\ call = NoCall
  /\ lastCheck = NoLastCheck

clientIPOf(h) == extractRealIP(h.req.headers)

\* history: checkRateLimit has returned to this invocation, and what it was
\* asked and answered
checkReturned(h) == "RATE_LIMIT_CHECK" \in Range(h.trace) /\ h.pc # "checking"
checkOf(h) ==
  [present |-> TRUE, ip |-> clientIPOf(h), email |-> h.formData.email, at |-> h.checkedAt,
   result |-> h.rateLimitResult]

\* a request arrives at a free slot and runs to its first pending call
Receive(p, r) ==
  /\ p \in active
  /\ r \in pool
  /\ proc[p].pc \in {"idle", "done"}
  /\ served < MaxRequests
  /\ proc' = [proc EXCEPT ![p] = handleContactSubmission(r, now)]
  /\ served' = IF "RATE_LIMIT_CHECK" \in Range(proc'[p].trace) THEN served + 1 ELSE served
  /\ lastCheck' = IF checkReturned(proc[p]) /\ "RATE_LIMIT_INCREMENT" \notin Range(proc[p].trace)
                   THEN checkOf(proc[p])
                   ELSE lastCheck
  /\ UNCHANGED <<call, env, buildEnv, active, pool, faulty, now, redis, sentLog>>

\* a limiter whose check counts the attempt it is checking
RedisGet_counting(p, d, ok) ==
  /\ proc[p].pc = "checking"
  /\ proc[p].checks[d].pending
  /\ ok \/ faulty
  /\ LET h == proc[p]
         cfg == rateLimitServiceOf.config[d]
         key == keyOf(d, identifierOf(d, clientIPOf(h), h.formData.email),
                      h.checks[d].windowStart)
         got == [ok |-> ok, value |-> IF ok THEN redisGet(key) ELSE 0]
         result == checkLimit(d, cfg.limit, cfg.window, h.checks[d].windowStart, got)
         h1 == [h EXCEPT !.checks[d].pending = FALSE, !.checks[d].failed = ~ok,
                         !.checks[d].result = result, !.lastSettled = d]
     IN  /\ proc' = [proc EXCEPT ![p] =
                       IF \E e \in Dims : h1.checks[e].pending
                       THEN h1
                       ELSE afterRateLimitCheck(h1, checkRateLimitResult(h1.checks))]
         /\ redis' = IF ok THEN redisIncrExpire(redis, key, cfg.window, now) ELSE redis
  /\ UNCHANGED <<lastCheck, call, env, buildEnv, active, pool, faulty, now, served, sentLog>>

\* the store answers (or fails) one redis.get of checkRateLimit; the last
\* answer resumes the handler
RedisGet(p, d, ok) ==
  /\ proc[p].pc = "checking"
  /\ proc[p].checks[d].pending
  /\ ok \/ faulty
  /\ LET h == proc[p]
         cfg == rateLimitServiceOf.config[d]
         key == keyOf(d, identifierOf(d, clientIPOf(h), h.formData.email),
                      h.checks[d].windowStart)
         got == [ok |-> ok, value |-> IF ok THEN redisGet(key) ELSE 0]
         result == checkLimit(d, cfg.limit, cfg.window, h.checks[d].windowStart, got)
         h1 == [h EXCEPT !.checks[d].pending = FALSE, !.checks[d].failed = ~ok,
                         !.checks[d].result = result, !.lastSettled = d]
     IN  proc' = [proc EXCEPT ![p] =
                    IF \E e \in Dims : h1.checks[e].pending
                    THEN h1
                    ELSE afterRateLimitCheck(h1, checkRateLimitResult(h1.checks))]
  /\ UNCHANGED <<lastCheck, call, env, buildEnv, active, pool, faulty, now, redis, served, sentLog>>

SendOutcomes == {"true", "false", "throws"}

\* history: one more successful send from this address and sender at this time
logSend(log, ip, email, nowMs) ==
  LET e == [ip |-> ip, email |-> email, at |-> nowMs]
  IN  [k \in DOMAIN log \cup {e} |-> IF k = e THEN (IF e \in DOMAIN log THEN log[e] ELSE 0) + 1
                                     ELSE log[k]]

\* emailService.sendEmail settles
SendEmail(p, outcome) ==
  /\ proc[p].pc = "sending"
  /\ proc' = [proc EXCEPT ![p] = afterSend(proc[p], outcome, now)]
  /\ sentLog' = IF outcome = "true" /\ rateLimitServiceOf.exists
                 THEN logSend(sentLog, clientIPOf(proc[p]), proc[p].formData.email, now)
                 ELSE sentLog
  /\ UNCHANGED <<lastCheck, call, env, buildEnv, active, pool, faulty, now, redis, served>>

IncrOutcomes == {"ok", "error", "lost"}

\* the store runs (or fails) one incr+expire pipeline of incrementCounters:
\* "error" fails before the store is changed, "lost" after; a failure is
\* caught and logged by incrementCounter; the last answer resumes the handler
RedisIncr(p, d, outcome) ==
  /\ proc[p].pc = "incrementing"
  /\ proc[p].incrs[d].pending
  /\ outcome = "ok" \/ faulty
  /\ LET h == proc[p]
         key == keyOf(d, identifierOf(d, clientIPOf(h), h.formData.email),
                      h.incrs[d].windowStart)
         h1 == [h EXCEPT !.incrs[d].pending = FALSE, !.incrs[d].failed = (outcome # "ok")]
     IN  /\ redis' = IF outcome = "error" THEN redis
                     ELSE redisIncrExpire(redis, key, h.incrs[d].ttl, now)
         /\ proc' = [proc EXCEPT ![p] =
                       IF \E e \in Dims : h1.incrs[e].pending THEN h1
                       ELSE afterIncrement(h1)]
  /\ lastCheck' = IF redis' = redis THEN lastCheck ELSE NoLastCheck
  /\ UNCHANGED <<call, env, buildEnv, active, pool, faulty, now, served, sentLog>>

\* emailService.sendAutoReply settles; lines 158-199
SendAutoReply(p, outcome) ==
  /\ proc[p].pc = "autoreply"
  /\ proc' = [proc EXCEPT ![p] = afterAutoReply(proc[p], outcome)]
  /\ UNCHANGED <<lastCheck, call, env, buildEnv, active, pool, faulty, now, redis, served, sentLog>>

\* a second passes
Tick ==
  /\ now + 1000 <= MaxTime
  /\ now' = now + 1000
  /\ redis' = expire(redis, now')
  /\ UNCHANGED <<lastCheck, call, env, buildEnv, active, pool, faulty, proc, served, sentLog>>

Next ==
  \/ \E p \in Procs, r \in pool : Receive(p, r)
  \/ \E p \in Procs, d \in Dims, ok \in BOOLEAN : RedisGet(p, d, ok)
  \/ \E p \in Procs, o \in SendOutcomes : SendEmail(p, o)
  \/ \E p \in Procs, d \in Dims, o \in IncrOutcomes : RedisIncr(p, d, o)
  \/ \E p \in Procs, o \in SendOutcomes : SendAutoReply(p, o)
  \/ Tick

Spec == Init /\ [][Next]_vars

\* the call slot p awaits settles: the store or the mail provider answers,
\* fails or throws
Settle(p) ==
  \/ \E d \in Dims, ok \in BOOLEAN : RedisGet(p, d, ok)
  \/ \E o \in SendOutcomes : SendEmail(p, o)
  \/ \E d \in Dims, o \in IncrOutcomes : RedisIncr(p, d, o)
  \/ \E o \in SendOutcomes : SendAutoReply(p, o)

\* deployments for the runs in which every awaited call settles: a failing
\* store, and the deployments without a rate limiter and with auto-reply on
LiveScenarios ==
  {FaultScenario(sClosed, sFalse)}
    \cup {s \in GateScenarios : /\ s.env.ENABLE_AUTO_REPLY = sTRUE
                                /\ s.buildEnv.RATE_LIMITING = Undefined}

LiveInit ==
  /\ \E s \in LiveScenarios :
       env = s.env /\ buildEnv = s.buildEnv /\ pool = s.pool /\ faulty = s.faulty
  /\ active = {1}
  /\ now = 0
  /\ redis = << >>
  /\ proc = [p \in Procs |-> Idle]
  /\ served = 0
  /\ sentLog = << >>
  /\ call = NoCall
  /\ lastCheck = NoLastCheck

\* an awaited promise settles once the collaborator has answered
LiveSpec == LiveInit /\ [][Next]_vars /\ \A p \in Procs : WF_vars(Settle(p))

\* deployments that serve requests concurrently: the rate limiter built in,
\* a reliable store, the per-sender dimension on with limit 1, the
\* per-address dimension off, the requests of one client
ConcScenarios ==
  {[s EXCEPT !.pool = {r \in RatePool : r.headers.cfConnectingIP = ip1}] :
     s \in {r \in RateScenarios : /\ r.env.RATE_LIMIT_EMAIL_ENABLED = sTRUE
                                   /\ r.env.RATE_LIMIT_EMAIL_LIMIT = Digits(1)
                                   /\ r.env.RATE_LIMIT_IP_ENABLED = Undefined}}

\* every slot serves: the runtime starts a handler per request and
\* interleaves them at their awaits
ConcInit ==
  /\ \E s \in ConcScenarios :
       env = s.env /\ buildEnv = s.buildEnv /\ pool = s.pool /\ faulty = s.faulty
  /\ active = Procs
  /\ now = 0
  /\ redis = << >>
  /\ proc = [p \in Procs |-> Idle]
  /\ served = 0
  /\ sentLog = << >>
  /\ call = NoCall
  /\ lastCheck = NoLastCheck

ConcSpec == ConcInit /\ [][Next]_vars

\* deployments that count per sender, served by one handler at a time, and
\* two clients who spell one sender address in different letter case
CaseScenarios ==
  {[s EXCEPT !.pool = CasePool] :
     s \in {r \in RateScenarios : r.env.RATE_LIMIT_EMAIL_ENABLED = sTRUE}}

CaseInit ==
  /\ \E s \in CaseScenarios :
       env = s.env /\ buildEnv = s.buildEnv /\ pool = s.pool /\ faulty = s.faulty
  /\ active = {1}
  /\ now = 0
  /\ redis = << >>
  /\ proc = [p \in Procs |-> Idle]
  /\ served = 0
  /\ sentLog = << >>
  /\ call = NoCall
  /\ lastCheck = NoLastCheck

CaseSpec == CaseInit /\ [][Next]_vars

\* a deployment that counts globally only, one message per window of two
\* seconds
BurstScenarios ==
  {[s EXCEPT !.env.RATE_LIMIT_GLOBAL_LIMIT = Digits(1)] :
     s \in {r \in RateScenarios : /\ r.env.RATE_LIMIT_GLOBAL_ENABLED = Undefined
                                   /\ r.env.RATE_LIMIT_IP_ENABLED = Undefined
                                   /\ r.env.RATE_LIMIT_EMAIL_ENABLED = sFalse}}

BurstInit ==
  /\ \E s \in BurstScenarios :
       env = s.env /\ buildEnv = s.buildEnv /\ pool = s.pool /\ faulty = s.faulty
  /\ active = {1}
  /\ now = 0
  /\ redis = << >>
  /\ proc = [p \in Procs |-> Idle]
  /\ served = 0
  /\ sentLog = << >>
  /\ call = NoCall
  /\ lastCheck = NoLastCheck

\* one more second passes after the clock has reached MaxTime, so that a
\* window of two seconds ends within the behaviour
LateTick ==
  /\ now <= MaxTime /\ MaxTime < now + 1000
  /\ now' = now + 1000
  /\ redis' = expire(redis, now')
  /\ UNCHANGED <<lastCheck, call, env, buildEnv, active, pool, faulty, proc, served, sentLog>>

BurstNext == Next \/ LateTick

BurstSpec == BurstInit /\ [][BurstNext]_vars

(***************************************************************************)
(* The exported functions called directly                                  *)
(***************************************************************************)
\* the strings of at most n characters over an alphabet
Strings(alphabet, n) == UNION {[1..k -> alphabet] : k \in 0..n}

Call(fn, args) == [fn |-> fn, args |-> args, returned |-> FALSE, result |-> << >>]

\* arguments of validateContactForm: objects of the schema with every message
\* and subject of letters and blanks up to the length bound, objects with an
\* extra key, and values that are not objects
ValidateArgs ==
  {Body(e, sub, m) : e \in {eA, eBad}, sub \in Strings({"a", " "}, MaxLen - 1),
                     m \in Strings({"o", " "}, MaxLen)}
  \cup {[Body(eA, subjOk, m) EXCEPT !.extra = TRUE] : m \in {msgOk, msgShort}}
  \cup {OtherBody("falsy"), OtherBody("nonobject")}

\* arguments of isEmailAllowed: an address, then the domain whitelist, the
\* domain blacklist and the address blacklist as the environment gives them
DomainLists ==
  {Undefined, Str0, <<" ">>, <<"b", ".", "c", "c">>, <<"x", ".", "c", "c">>, <<"b", ".", "c", "c", ";", "X", ".", "c", "c">>, <<" ", "B", ".", "c", "c", " ", ";">>}

AddressLists ==
  {Undefined, <<";">>, <<"S", "@", "b", ".", "c", "c">>, <<"a", "@", "b", ".", "c", "c">>, <<" ", "a", "@", "x", ".", "c", "c", ";", " ", "A", "@", "b", ".", "c", "c">>}

IsEmailAllowedArgs ==
  {<<e, w, b, a>> : e \in {eA, eAUpper, eC, eS, eX, eBad},
                    w \in DomainLists, b \in DomainLists, a \in AddressLists}

\* arguments of validateAndNormalizeAttachment: a candidate and the
\* configuration getAttachmentsConfig reads from the environment
AttachmentFilenames ==
  {<<"a", ".", "j", "s">>, <<"A", ".", "J", "S">>, <<".", "j", "s">>, <<"j", "s">>,
   <<"a", ".">>, <<"a", ".", "j", "s", ".", "t">>, <<" ", "a", ".", "j", "s", " ">>,
   <<"a", ".", "t">>, <<" ">>, Undefined}

AttachmentTypes ==
  {<<"a", "/", "j">>, <<" ", "A", "/", "J", " ">>, <<"t", "/", "p">>, <<"x", "/", "e">>,
   Undefined}

AttachmentContents ==
  {<<"e", "3", "0", "=">>, <<"S", "G", "V", "s", "b", "G", "8", "=">>, <<"A", "A", "A", "A">>,
   <<"A", "A", "=", "=">>, <<"A", "A", "A">>, <<"A", "=", "=", "=">>,
   <<"e", "3", " ", "0", "=">>, <<"A", "=", "A", "=">>,
   <<"A", "A", "A", "A", "A", "A", "=", "=">>, <<"$", "$", "$", "$">>, Str0}

AttachmentCandidates ==
  {[kind |-> "object", filename |-> f, contentType |-> t, content |-> c] :
      f \in AttachmentFilenames, t \in AttachmentTypes, c \in AttachmentContents}
  \cup {[kind |-> "null", filename |-> Undefined, contentType |-> Undefined,
         content |-> Undefined]}

AttachmentEnvs ==
  {[ATTACHMENTS_ENABLED |-> sTrue, ATTACHMENTS_MAX_FILE_SIZE_BYTES |-> m,
    ATTACHMENTS_MIME_WHITELIST |-> w, ATTACHMENTS_MIME_BLACKLIST |-> b] :
      m \in {Undefined, <<"3">>, <<"0">>, <<"x">>, <<" ", "4">>},
      w \in {Undefined, <<"a", "/", "j", ";", "t", "/", "p">>, <<" ", "A", "/", "J", " ", ";">>},
      b \in {Undefined, <<"a", "/", "j">>, <<"X", "/", "E", ";", " ", "a", "/", "j">>}}

AttachmentArgs ==
  {<<c, getAttachmentsConfig(e)>> : c \in AttachmentCandidates, e \in AttachmentEnvs}

\* arguments of createCorsHeaders: the configured origin list and the
\* Origin header of the request
OriginLists ==
  {Undefined, sStar, <<"o", ".", "a">>, <<"o", ".", "a", ",", "o", ".", "b">>,
   <<" ", "o", ".", "a", " ", ",", " ", "o", ".", "b", " ">>, Str0}

RequestOrigins == {Undefined, Str0, <<"o", ".", "a">>, <<"o", ".", "b">>, <<"o", ".", "x">>}

CorsArgs == {<<a, o>> : a \in OriginLists, o \in RequestOrigins}

\* arguments of parseRateLimitConfig: environments in which the limit and the
\* window of one dimension hold a number, zero, a negative number, text, a
\* number followed by text, the empty string or nothing
NumberStrings ==
  {Undefined, Str0, <<"2">>, <<"0">>, <<"-", "1">>, <<"x">>, <<"2", "x">>, <<" ", "3">>}

RateLimitEnvs ==
  {[NoRateSettings EXCEPT !.RATE_LIMIT_GLOBAL_LIMIT = l, !.RATE_LIMIT_GLOBAL_WINDOW = w] :
      l \in NumberStrings, w \in NumberStrings}
  \cup {[NoRateSettings EXCEPT !.RATE_LIMIT_IP_LIMIT = l, !.RATE_LIMIT_IP_WINDOW = w] :
          l \in NumberStrings, w \in NumberStrings}
  \cup {[NoRateSettings EXCEPT !.RATE_LIMIT_EMAIL_LIMIT = l, !.RATE_LIMIT_EMAIL_WINDOW = w] :
          l \in NumberStrings, w \in NumberStrings}

\* arguments of containsBannedWords: form data whose email ends and whose
\* subject and message begin and end with letters a banned word can straddle,
\* and lists that hold such words, in either letter case, blank or empty
BannedWordLists ==
  {Undefined, Str0, <<" ", ";", " ">>,
   <<"c", " ", "s">>, <<" ", "C", " ", "S", " ", ";", "z">>, <<"x", " ", "o">>,
   <<"c", "s">>, <<"x", "o">>, <<"z", ";", "S", "X">>, <<"@", "b">>, <<"z", ";", ";", "q">>}

BannedWordsArgs ==
  {<<[email |-> e, subject |-> sub, message |-> m], w>> :
      e \in {eA, eAUpper}, sub \in {<<"s", "x">>, <<"S", " ", "x">>, subjOk},
      m \in {msgOk, <<"O", "k", " ", "c">>}, w \in BannedWordLists}

Calls ==
  {Call("containsBannedWords", a) : a \in BannedWordsArgs}
  \cup {Call("createCorsHeaders", a) : a \in CorsArgs}
  \cup {Call("parseRateLimitConfig", a) : a \in RateLimitEnvs}
  \cup {Call("validateContactForm", a) : a \in ValidateArgs}
  \cup {Call("isEmailAllowed", a) : a \in IsEmailAllowedArgs}
  \cup {Call("validateAndNormalizeAttachment", a) : a \in AttachmentArgs}

\* a deployment that serves no request
IdleScenario ==
  Scenario(Env(PlainFilters, NoRateSettings, Undefined, Undefined, Undefined),
           BuildEnv(Undefined, Undefined), {}, FALSE)

FnInit ==
  /\ call \in Calls
  /\ env = IdleScenario.env /\ buildEnv = IdleScenario.buildEnv
  /\ pool = IdleScenario.pool /\ faulty = IdleScenario.faulty
  /\ active = {}
  /\ now = 0
  /\ redis = << >>
  /\ proc = [p \in Procs |-> Idle]
  /\ served = 0
  /\ sentLog = << >>
  /\ lastCheck = NoLastCheck

Return(value) ==
  /\ ~call.returned
  /\ call' = [call EXCEPT !.returned = TRUE, !.result = value]
  /\ UNCHANGED <<lastCheck, env, buildEnv, active, pool, faulty, now, redis, proc, served,
               sentLog>>

CallValidateContactForm ==
  /\ call.fn = "validateContactForm"
  /\ Return(validateContactForm(call.args))

CallIsEmailAllowed ==
  /\ call.fn = "isEmailAllowed"
  /\ Return(isEmailAllowed(call.args[1], call.args[2], call.args[3], call.args[4]))

CallValidateAndNormalizeAttachment ==
  /\ call.fn = "validateAndNormalizeAttachment"
  /\ Return(validateAndNormalizeAttachment(call.args[1], call.args[2]))

CallContainsBannedWords ==
  /\ call.fn = "containsBannedWords"
  /\ Return(containsBannedWords(call.args[1], call.args[2]))

CallCreateCorsHeaders ==
  /\ call.fn = "createCorsHeaders"
  /\ Return(createCorsHeaders(call.args[1], call.args[2]))

CallParseRateLimitConfig ==
  /\ call.fn = "parseRateLimitConfig"
  /\ Return(parseRateLimitConfig(call.args))

FnNext ==
  \/ CallContainsBannedWords
  \/ CallCreateCorsHeaders
  \/ CallParseRateLimitConfig
  \/ CallValidateContactForm
  \/ CallIsEmailAllowed
  \/ CallValidateAndNormalizeAttachment

FnSpec == FnInit /\ [][FnNext]_vars


(***************************************************************************)
(* Properties                                                              *)
(***************************************************************************)
Count(seq, x) == Cardinality({i \in DOMAIN seq : seq[i] = x})

IndexOf(seq, x) == CHOOSE i \in DOMAIN seq : seq[i] = x

Started(h) == h.pc # "idle"
Done(h) == h.pc = "done"

\* the gates of the pipeline, decided from the request and the deployment
authPassed(h) == validateApiKey(h.req.apiKey, env.API_KEY).isValid
parsePassed(h) == h.req.body.kind \notin {"malformed", "falsy"}
validationPassed(h) == validateContactForm(h.req.body).success
bannedWordsPassed(h) ==
  ~containsBannedWords(validateContactForm(h.req.body).data, env.BANNED_WORDS)
emailFilterPassed(h) ==
  isEmailAllowed(validateContactForm(h.req.body).data.email, env.EMAIL_DOMAIN_WHITELIST,
                 env.EMAIL_DOMAIN_BLACKLIST, env.EMAIL_ADDRESS_BLACKLIST).isAllowed
rateLimitPassed(h) ==
  ~rateLimitServiceOf.exists \/ (h.pc # "checking" /\ h.rateLimitResult.allowed)

passedAllGates(h) ==
  /\ authPassed(h)
  /\ parsePassed(h)
  /\ validationPassed(h)
  /\ bannedWordsPassed(h)
  /\ emailFilterPassed(h)
  /\ rateLimitPassed(h)

\* C1: for every request, sendEmail has been invoked exactly once if the
\* request passed authentication, JSON parsing, validation, the banned-words
\* filter, the email filter and the rate-limit check, and not at all if one
\* of these gates failed (or the rate-limit check is still pending).
C1_SendIffAllGatesPassed ==
  \A p \in Procs :
    Started(proc[p]) =>
      Count(proc[p].trace, "SEND") = (IF passedAllGates(proc[p]) THEN 1 ELSE 0)

C1_Witness ==
  \E p \in Procs :
    /\ Done(proc[p]) /\ proc[p].response.status = 200
    /\ "RATE_LIMIT_CHECK" \in Range(proc[p].trace)
    /\ Count(proc[p].trace, "SEND") = 1

\* C2: every step that changes a rate-limit counter is an increment made for a
\* request whose sendEmail has returned true; so a request that is rejected
\* by a gate, denied by the rate limiter, or whose send returns false or
\* throws changes no counter.
C2_IncrementOnlyAfterSuccessfulSend ==
  [][/\ (\E k \in DOMAIN redis' : k \notin DOMAIN redis \/ redis'[k].count # redis[k].count)
        => \E p \in Procs :
             /\ proc[p].pc = "incrementing"
             /\ proc[p].emailSent = "true"
             /\ proc'[p].incrs # proc[p].incrs
     /\ \A p \in Procs :
          "RATE_LIMIT_INCREMENT" \in Range(proc'[p].trace)
            => /\ proc'[p].emailSent = "true"
               /\ IndexOf(proc'[p].trace, "SEND")
                    < IndexOf(proc'[p].trace, "RATE_LIMIT_INCREMENT")]_vars

\* a request whose send failed is answered while counters of earlier requests stand
C2_Witness ==
  \E p \in Procs :
    /\ Done(proc[p]) /\ proc[p].emailSent = "false"
    /\ "RATE_LIMIT_CHECK" \in Range(proc[p].trace)
    /\ redis # << >>
    /\ ~faulty

\* the start, in milliseconds, of the window of w seconds that contains time t
WindowLo(t, w) ==
  CHOOSE lo \in {k * w * 1000 : k \in 0..(t \div 1000)} : lo <= t /\ t < lo + w * 1000

sameCounter(d, e, ip, email) ==
  CASE d = "global" -> TRUE
    [] d = "ip" -> e.ip = ip
    [] d = "email" -> toLowerCase(e.email) = toLowerCase(email)

RECURSIVE sumLog(_)
sumLog(S) ==
  IF S = {} THEN 0
  ELSE LET e == CHOOSE x \in S : TRUE IN sentLog[e] + sumLog(S \ {e})

\* successful sends counted by dimension d for this client within [lo, hi)
sendsIn(d, ip, email, lo, hi) ==
  sumLog({e \in DOMAIN sentLog : sameCounter(d, e, ip, email) /\ lo <= e.at /\ e.at < hi})

\* C3: with a reliable store and requests handled one at a time, a check of an
\* enabled dimension with limit N admits exactly when fewer than N sends have
\* succeeded for the same key in the window of the check, and the denial
\* that follows the N-th carries resetTime = end of that window, in ms.
C3_ExactlyLimitAdmitted ==
  \A p \in Procs, d \in Dims :
    LET h == proc[p]
        cfg == rateLimitServiceOf.config[d]
        lo == WindowLo(h.checkedAt, cfg.window)
        hi == lo + cfg.window * 1000
        n == sendsIn(d, clientIPOf(h), h.formData.email, lo, hi)
    IN  (/\ ~faulty
         /\ h.checks[d].present /\ ~h.checks[d].pending
         /\ h.pc \in {"checking", "sending"} \/ (Done(h) /\ h.response.status = 429))
        => /\ h.checks[d].result.allowed = (n < cfg.limit)
           /\ n <= cfg.limit
           /\ ~h.checks[d].result.allowed => h.checks[d].result.resetTime = hi

\* the third request on a key with limit 2 is denied
C3_Witness ==
  \E p \in Procs, d \in Dims :
    /\ ~faulty
    /\ Done(proc[p]) /\ proc[p].response.status = 429
    /\ proc[p].checks[d].present /\ ~proc[p].checks[d].result.allowed
    /\ rateLimitServiceOf.config[d].limit = 2
    /\ sendsIn(d, clientIPOf(proc[p]), proc[p].formData.email, 0, now + 1) >= 2

checkCompleted(h) == "RATE_LIMIT_CHECK" \in Range(h.trace) /\ h.pc # "checking"
everyReadFailed(h) == \A d \in Dims : h.checks[d].present => h.checks[d].failed
someReadFailed(h) == \E d \in Dims : h.checks[d].present /\ h.checks[d].failed

\* C4: when every counter read of checkRateLimit fails and the failure mode
\* is 'closed', the result is allowed = false with reason "Rate limit
\* exceeded", and the request is not sent.
C4_FailClosed ==
  \A p \in Procs :
    (/\ RATE_LIMIT_REDIS_FAILURE_MODE(buildEnv) = "closed"
     /\ checkCompleted(proc[p])
     /\ everyReadFailed(proc[p]))
    => /\ ~proc[p].rateLimitResult.allowed
       /\ proc[p].rateLimitResult.reason = errRateLimit
       /\ "SEND" \notin Range(proc[p].trace)

validated == call.fn = "validateContactForm" /\ call.returned /\ call.result.success

\* C11: every submission a successful validateContactForm returns has its
\* subject and message trimmed, the subject non-empty and at most
\* SUBJECT_MAX_LENGTH long, and the message between MESSAGE_MIN_LENGTH and
\* MESSAGE_MAX_LENGTH characters long: the length rules hold of the trimmed
\* fields.
C11_LengthRulesOnTrimmedFields ==
  validated
    => /\ call.result.data.subject = trim(call.args.subject)
       /\ call.result.data.message = trim(call.args.message)
       /\ Len(call.result.data.subject) >= 1
       /\ Len(call.result.data.subject) <= SUBJECT_MAX_LENGTH
       /\ Len(call.result.data.message) >= MESSAGE_MIN_LENGTH
       /\ Len(call.result.data.message) <= MESSAGE_MAX_LENGTH

\* a message without surrounding white space, with a well-formed email and subject
plainSubmission(data) ==
  /\ data.kind = "object" /\ ~data.extra
  /\ isEmailShape(data.email)
  /\ data.subject = trim(data.subject)
  /\ Len(data.subject) \in 1..SUBJECT_MAX_LENGTH
  /\ data.message = trim(data.message)

\* C12: for a well-formed email and subject and a message without surrounding
\* white space of length L, validateContactForm succeeds when
\* MESSAGE_MIN_LENGTH <= L <= MESSAGE_MAX_LENGTH, and fails with an error
\* on field 'message' when L is MESSAGE_MIN_LENGTH - 1 or MESSAGE_MAX_LENGTH + 1.
C12_MessageLengthBounds ==
  (call.fn = "validateContactForm" /\ call.returned /\ plainSubmission(call.args))
    => LET L == Len(call.args.message)
       IN  /\ (MESSAGE_MIN_LENGTH <= L /\ L <= MESSAGE_MAX_LENGTH) => call.result.success
           /\ L \in {MESSAGE_MIN_LENGTH - 1, MESSAGE_MAX_LENGTH + 1}
                => /\ ~call.result.success
                   /\ \E i \in DOMAIN call.result.errors :
                        call.result.errors[i].field = "message"

\* a message of exactly MESSAGE_MAX_LENGTH characters is accepted
C12_Witness ==
  /\ validated
  /\ plainSubmission(call.args)
  /\ Len(call.args.message) = MESSAGE_MAX_LENGTH

\* a body that is not an object, or an object with a key the schema lacks
notOfSchema(body) == body.kind # "object" \/ body.extra

listedIn(x, list) ==
  /\ list # Undefined
  /\ \E i \in DOMAIN split(list, ";") :
       /\ trim(split(list, ";")[i]) # Str0
       /\ toLowerCase(trim(split(list, ";")[i])) = toLowerCase(x)

hasEntries(list) ==
  list # Undefined /\ \E i \in DOMAIN split(list, ";") : trim(split(list, ";")[i]) # Str0

\* the part of a well-formed address after its @
domainOf(email) == SubSeq(email, lastIndexOf(email, "@") + 2, Len(email))

\* C14: for a well-formed address isEmailAllowed decides in this order: the
\* address is in the address blacklist -> blocked 'Email address is
\* blacklisted'; else its domain is in the domain blacklist -> blocked 'Email
\* domain is blacklisted'; else the domain whitelist has entries and lacks
\* the domain -> blocked 'Email domain is not in whitelist'; else allowed.
C14_FilterPriority ==
  (call.fn = "isEmailAllowed" /\ call.returned /\ isEmailShape(call.args[1]))
    => LET email == call.args[1]
           whitelist == call.args[2]
           domainBlacklist == call.args[3]
           addressBlacklist == call.args[4]
       IN  call.result =
             IF listedIn(email, addressBlacklist)
             THEN [isAllowed |-> FALSE, reason |-> "Email address is blacklisted"]
             ELSE IF listedIn(domainOf(email), domainBlacklist)
             THEN [isAllowed |-> FALSE, reason |-> "Email domain is blacklisted"]
             ELSE IF hasEntries(whitelist) /\ ~listedIn(domainOf(email), whitelist)
             THEN [isAllowed |-> FALSE, reason |-> "Email domain is not in whitelist"]
             ELSE [isAllowed |-> TRUE, reason |-> ""]

\* an address whose domain is in both domain lists and which is itself
\* blacklisted is blocked as a blacklisted address
C14_Witness ==
  /\ call.fn = "isEmailAllowed" /\ call.returned
  /\ listedIn(call.args[1], call.args[4])
  /\ listedIn(domainOf(call.args[1]), call.args[3])
  /\ listedIn(domainOf(call.args[1]), call.args[2])
  /\ call.result = [isAllowed |-> FALSE, reason |-> "Email address is blacklisted"]

\* the submission the validator returned for the request of h
submissionOf(h) == validateContactForm(h.req.body).data

\* some entry of the banned-word list occurs, without regard to letter case,
\* in the email, in the subject or in the message of the submission
hasBannedToken(data, list) ==
  /\ list # Undefined
  /\ \E i \in DOMAIN split(list, ";") :
       LET token == toLowerCase(trim(split(list, ";")[i]))
       IN  /\ token # Str0
           /\ \/ includes(toLowerCase(data.email), token)
              \/ includes(toLowerCase(data.subject), token)
              \/ includes(toLowerCase(data.message), token)

\* C15: a validated submission in which an entry of the banned-word list
\* occurs, case-insensitively, in the email, the subject or the message is
\* answered 400 'Message contains inappropriate content and cannot be sent',
\* and sendEmail is not invoked for it.
C15_BannedContentHalts ==
  \A p \in Procs :
    (/\ Started(proc[p])
     /\ authPassed(proc[p]) /\ parsePassed(proc[p]) /\ validationPassed(proc[p])
     /\ hasBannedToken(submissionOf(proc[p]), env.BANNED_WORDS))
    => /\ Done(proc[p])
       /\ proc[p].response.status = 400
       /\ proc[p].response.error = errBanned
       /\ "SEND" \notin Range(proc[p].trace)

\* a banned word written in another letter case, in the sender address only
C15_Witness ==
  \E p \in Procs :
    /\ Done(proc[p]) /\ proc[p].response.error = errBanned
    /\ hasBannedToken([submissionOf(proc[p]) EXCEPT !.subject = Str0, !.message = Str0],
                      env.BANNED_WORDS)
    /\ ~hasBannedToken([submissionOf(proc[p]) EXCEPT !.email = Str0], env.BANNED_WORDS)
    /\ ~includes(submissionOf(proc[p]).email, <<"A", "@">>)

\* C16: a validated submission that both the banned-words filter and the
\* email filter would block is answered with the content error, not with
\* the email-filter error; the email filter is not reached.
C16_ContentFilterFirst ==
  \A p \in Procs :
    (/\ Started(proc[p])
     /\ authPassed(proc[p]) /\ parsePassed(proc[p]) /\ validationPassed(proc[p])
     /\ ~bannedWordsPassed(proc[p])
     /\ ~emailFilterPassed(proc[p]))
    => /\ Done(proc[p])
       /\ proc[p].response.status = 400
       /\ proc[p].response.error = errBanned
       /\ proc[p].response.error # "Email address is not allowed"
       /\ "IDENTITY_FILTER" \notin Range(proc[p].trace)

C16_Witness ==
  \E p \in Procs :
    /\ Done(proc[p])
    /\ "CONTENT_FILTER" \in Range(proc[p].trace)
    /\ ~bannedWordsPassed(proc[p])
    /\ ~emailFilterPassed(proc[p])

\* rate limiting is not built in, or the store's URL or token is missing, or
\* none of the three dimensions is enabled
rateLimitOff ==
  \/ ~RATE_LIMITING_ENABLED(buildEnv)
  \/ env.UPSTASH_REDIS_REST_URL \in {Undefined, Str0}
  \/ env.UPSTASH_REDIS_REST_TOKEN \in {Undefined, Str0}
  \/ \A d \in Dims : ~parseRateLimitConfig(env)[d].enabled

\* C17: when rate limiting is disabled for the deployment, or no store is
\* configured, or all three dimensions are disabled, no request is answered
\* 429, every request that passed the gates before is sent, and the counter
\* store is neither read nor written.
C17_RateLimitSkipped ==
  rateLimitOff
    => /\ redis = << >>
       /\ \A p \in Procs :
            /\ proc[p].response.status # 429
            /\ proc[p].pc \notin {"checking", "incrementing"}
            /\ \A d \in Dims : /\ ~proc[p].checks[d].present
                                /\ ~proc[p].checks[d].pending
                                /\ ~proc[p].incrs[d].pending
            /\ (/\ Started(proc[p])
                /\ authPassed(proc[p]) /\ parsePassed(proc[p]) /\ validationPassed(proc[p])
                /\ bannedWordsPassed(proc[p]) /\ emailFilterPassed(proc[p]))
               => "SEND" \in Range(proc[p].trace)

\* a request is sent by a deployment built with rate limiting and given a
\* store, whose dimensions are all switched off
C17_Witness ==
  /\ RATE_LIMITING_ENABLED(buildEnv)
  /\ env.UPSTASH_REDIS_REST_URL = sUrl /\ env.UPSTASH_REDIS_REST_TOKEN = sToken
  /\ rateLimitOff
  /\ \E p \in Procs : Done(proc[p]) /\ proc[p].response.status = 200

\* every enabled dimension sees the two instants in the same window
sameWindows(t1, t2) ==
  \A d \in Dims :
    LET cfg == rateLimitServiceOf.config[d]
    IN  cfg.enabled => WindowLo(t1, cfg.window) = WindowLo(t2, cfg.window)

\* checkRateLimit has answered this invocation after answering an earlier one
\* for the same address and sender in the same windows, no counter having
\* been incremented in between, the store being reachable
checkedAgain(h) ==
  /\ ~faulty
  /\ lastCheck.present
  /\ checkReturned(h)
  /\ "RATE_LIMIT_INCREMENT" \notin Range(h.trace)
  /\ lastCheck.ip = clientIPOf(h) /\ lastCheck.email = h.formData.email
  /\ sameWindows(lastCheck.at, h.checkedAt)

\* C18: two calls of checkRateLimit for the same address and sender in the
\* same window, with no increment between them and a reachable store, return
\* the same decision; and no step of checkRateLimit changes the store.
C18_CheckIsIdempotent ==
  /\ [](\A p \in Procs : checkedAgain(proc[p]) => proc[p].rateLimitResult = lastCheck.result)
  /\ [][\A p \in Procs :
          (proc[p].pc = "checking" \/ proc'[p].pc = "checking") /\ proc'[p] # proc[p]
            => redis' = redis]_vars

\* a refusal is repeated once counters have been written
C18_Witness ==
  \E p \in Procs :
    /\ checkedAgain(proc[p])
    /\ ~proc[p].rateLimitResult.allowed
    /\ redis # << >>

\* the counter of dimension d that a send by e at time e.at falls under
counterOf(d, e) ==
  keyOf(d, identifierOf(d, e.ip, e.email),
        WindowLo(e.at, rateLimitServiceOf.config[d].window) \div 1000)

storedCount(key) == IF key \in DOMAIN redis THEN redis[key].count ELSE 0

\* C19: with a reachable store, whenever no increment is in progress every
\* counter of an enabled dimension holds exactly the number of successful
\* sends that fall under it, and no other counter exists: each successful
\* send has added one to each enabled dimension and nothing to a disabled
\* one, and the auto-reply (sent, failed or skipped) has changed none.
C19_OneIncrementPerSend ==
  ~faulty /\ (\A p \in Procs : proc[p].pc # "incrementing")
    => /\ \A e \in DOMAIN sentLog, d \in Dims :
            LET cfg == rateLimitServiceOf.config[d]
                lo == WindowLo(e.at, cfg.window)
            IN  IF cfg.enabled
                THEN storedCount(counterOf(d, e))
                       = sendsIn(d, e.ip, e.email, lo, lo + cfg.window * 1000)
                ELSE counterOf(d, e) \notin DOMAIN redis
       /\ \A key \in DOMAIN redis :
            \E e \in DOMAIN sentLog, d \in Dims :
              rateLimitServiceOf.config[d].enabled /\ key = counterOf(d, e)

\* two sends by different clients have been counted, the auto-reply of the
\* second has settled, and one dimension is enabled while another is not
C19_Witness ==
  /\ ~faulty
  /\ \E p \in Procs :
       /\ Done(proc[p]) /\ proc[p].response.status = 200
       /\ proc[p].autoReplySent # "none"
  /\ Cardinality(DOMAIN sentLog) >= 2
  /\ \E d1, d2 \in Dims :
       /\ rateLimitServiceOf.config[d1].enabled /\ ~rateLimitServiceOf.config[d2].enabled
       /\ \E e \in DOMAIN sentLog : storedCount(counterOf(d1, e)) >= 2

\* C20: a request one of whose increments failed (any or all of them) has had
\* sendEmail return true, goes on past incrementCounters once every
\* increment has settled, and is answered 200 with success = true.
C20_IncrementFailureSwallowed ==
  \A p \in Procs :
    LET h == proc[p]
    IN  (\E d \in Dims : h.incrs[d].failed)
          => /\ h.emailSent = "true"
             /\ h.pc \in {"incrementing", "autoreply", "done"}
             /\ h.pc = "incrementing" => \E d \in Dims : h.incrs[d].pending
             /\ Done(h) => /\ h.response.status = 200 /\ h.response.success
                           /\ h.response.error = ""

\* two dimensions are enabled and the increments of both failed, one of
\* them before it reached the store
C20_Witness ==
  \E p \in Procs :
    /\ Done(proc[p]) /\ proc[p].response.status = 200
    /\ Cardinality({d \in Dims : rateLimitServiceOf.config[d].enabled}) >= 2
    /\ \A d \in Dims : rateLimitServiceOf.config[d].enabled => proc[p].incrs[d].failed
    /\ redis = << >>

\* the status the first failing stage calls for, decided from the request,
\* the deployment, the answer of the rate limiter and the outcome of the send
statusByFirstFailure(h) ==
  IF ~authPassed(h) THEN 401
  ELSE IF ~parsePassed(h) \/ ~validationPassed(h) THEN 400
  ELSE IF ~bannedWordsPassed(h) \/ ~emailFilterPassed(h) THEN 400
  ELSE IF ~rateLimitPassed(h) THEN 429
  ELSE IF h.emailSent # "true" THEN 500
  ELSE 200

\* C21: the status of every response is the one of the first failing stage:
\* 401 for authentication; 400 for an unparseable body, a validation
\* failure, banned content or an email-filter block; 429 with error 'Rate
\* limit exceeded' and a detail on field 'rate_limit' for a denial; 500 for
\* a failed send; and 200 only when sendEmail succeeded.
C21_StatusOfFirstFailure ==
  \A p \in Procs :
    LET h == proc[p]
    IN  Done(h)
          => /\ h.response.status = statusByFirstFailure(h)
             /\ h.response.status = 429
                  => /\ h.response.error = "Rate limit exceeded"
                     /\ Len(h.response.details) = 1
                     /\ h.response.details[1].field = "rate_limit"
             /\ h.response.status = 200 => h.emailSent = "true"

\* a request failing two stages at once is answered for the earlier one: no
\* API key and an unparseable body give 401
C21_Witness ==
  \E p \in Procs :
    /\ Done(proc[p])
    /\ ~authPassed(proc[p]) /\ ~parsePassed(proc[p])
    /\ proc[p].response.status = 401

Statuses == {200, 400, 401, 429, 500}

\* the invocation awaits a call it has made, or has returned
awaitingOrDone(h) ==
  CASE h.pc = "checking" -> \E d \in Dims : h.checks[d].pending
    [] h.pc = "sending" -> h.emailSent = "none"
    [] h.pc = "incrementing" -> \E d \in Dims : h.incrs[d].pending
    [] h.pc = "autoreply" -> h.autoReplySent = "none"
    [] h.pc = "done" -> TRUE
    [] OTHER -> FALSE

oneResponse(h) ==
  /\ awaitingOrDone(h)
  /\ Count(h.trace, "RESPOND") = (IF Done(h) THEN 1 ELSE 0)
  /\ Done(h) => h.response.status \in Statuses /\ h.trace[Len(h.trace)] = "RESPOND"
  /\ ~Done(h) => h.response = NoResponse

\* C22 as stated: whichever call of the mail service throws, the response
\* is 500 with the fixed error.
C22_EveryExceptionIs500 ==
  \A p \in Procs :
    (Done(proc[p]) /\ "throws" \in {proc[p].emailSent, proc[p].autoReplySent})
      => proc[p].response.status = 500 /\ proc[p].response.error = errInternal

\* C22, amended: every invocation returns exactly one response, with status
\* 200, 400, 401, 429 or 500, once the calls it awaits have settled; an
\* exception of sendEmail yields 500 'Internal server error', an exception
\* of sendAutoReply is caught where it is thrown and leaves the 200, and a
\* failure of the store never surfaces as an exception.
C22_OneResponseAlways ==
  /\ [](\A p \in Procs :
          Started(proc[p])
            => /\ oneResponse(proc[p])
               /\ proc[p].emailSent = "throws"
                    => /\ Done(proc[p])
                       /\ proc[p].response.status = 500
                       /\ proc[p].response.error = errInternal
                       /\ proc[p].response.details = << >>
               /\ (Done(proc[p]) /\ proc[p].autoReplySent = "throws")
                    => proc[p].response.status = 200)
  /\ \A p \in Procs : Started(proc[p]) ~> Done(proc[p])

\* sendEmail has thrown after a read of the store failed, and the request
\* has been answered
C22_Witness ==
  \E p \in Procs :
    /\ Done(proc[p]) /\ proc[p].response.status = 500
    /\ proc[p].emailSent = "throws"
    /\ \E d \in Dims : proc[p].checks[d].failed

\* validateAndNormalizeAttachment has returned for a candidate whose three
\* fields are strings that are not blank
attachmentChecked ==
  /\ call.fn = "validateAndNormalizeAttachment" /\ call.returned
  /\ call.args[1].kind = "object"
  /\ \A v \in {call.args[1].filename, call.args[1].contentType, call.args[1].content} :
       v # Undefined /\ trim(v) # Str0

\* the name ends, letter case aside, with one of the unsupported extensions
hasUnsupportedExtension(name) ==
  \E ext \in RESEND_UNSUPPORTED_EXTENSIONS :
    /\ Len(name) >= Len(ext)
    /\ toLowerCase(SubSeq(name, Len(name) - Len(ext) + 1, Len(name))) = ext

\* base64 text, white space aside: groups of four characters of the
\* alphabet, the last group closed by at most two '='
padsOf(text) ==
  {k \in 0..2 :
     /\ Len(text) >= k /\ Len(text) % 4 = 0
     /\ \A i \in 1..Len(text) :
          IF i > Len(text) - k THEN text[i] = "=" ELSE text[i] \in Base64Chars}

isBase64(text) == padsOf(text) # {}
decodedSize(text) == 3 * (Len(text) \div 4) - (CHOOSE k \in padsOf(text) : TRUE)

\* C23: an attachment whose filename, contentType and content are not blank
\* is accepted if and only if its extension is not an unsupported one, its
\* MIME type is not blacklisted and is whitelisted when the whitelist is not
\* empty, its content is base64 and its decoded size is at most the
\* configured maximum; and a decoded size above the maximum is reported with
\* a message containing 'exceeds maximum size'.
C23_AttachmentAcceptedIff ==
  attachmentChecked =>
    LET name == trim(call.args[1].filename)
        mime == toLowerCase(trim(call.args[1].contentType))
        text == removeSpaces(call.args[1].content)
        config == call.args[2]
        tooBig == isBase64(text) /\ decodedSize(text) > config.maxSizeBytes
    IN  /\ call.result.ok
          <=> /\ ~hasUnsupportedExtension(name)
              /\ ~inList(config.blacklist, mime)
              /\ Len(config.whitelist) > 0 => inList(config.whitelist, mime)
              /\ isBase64(text)
              /\ ~tooBig
        /\ tooBig
             => \E i \in DOMAIN call.result.errors :
                  /\ call.result.errors[i].field = "attachment.content"
                  /\ "exceeds maximum size" \in Range(call.result.errors[i].message)

\* a padded attachment of exactly the maximum size is accepted
C23_Witness ==
  /\ attachmentChecked
  /\ call.result.ok
  /\ trailingEquals(call.result.value.content) = 2
  /\ decodedSize(removeSpaces(call.result.value.content)) = call.args[2].maxSizeBytes
  /\ call.args[2].whitelist # << >>

\* the MIME type of the checked attachment is on both lists
onBothLists ==
  LET mime == toLowerCase(trim(call.args[1].contentType))
  IN  inList(call.args[2].blacklist, mime) /\ inList(call.args[2].whitelist, mime)

\* C24: an attachment whose MIME type is both whitelisted and blacklisted is
\* rejected, and the one reason given for its MIME type is 'MIME type is
\* blacklisted'.
C24_BlacklistBeforeWhitelist ==
  attachmentChecked /\ onBothLists
    => /\ ~call.result.ok
       /\ \E i \in DOMAIN call.result.errors :
            call.result.errors[i].field = "attachment.contentType"
       /\ \A i \in DOMAIN call.result.errors :
            call.result.errors[i].field = "attachment.contentType"
              => call.result.errors[i].message = "MIME type is blacklisted"

\* the MIME type is the only thing wrong with the attachment
C24_Witness ==
  /\ attachmentChecked /\ onBothLists
  /\ Len(call.result.errors) = 1
  /\ call.args[1].contentType # toLowerCase(trim(call.args[1].contentType))

\* the request carries an attachment, and without it would pass
\* authentication, validation and the two filters
carriesAttachment(h) ==
  LET bare == [h.req.body EXCEPT !.attachment = NoCandidate]
      form == validateContactForm(bare)
  IN  /\ h.req.body.kind = "object" /\ h.req.body.attachment.kind # "absent"
      /\ authPassed(h)
      /\ form.success
      /\ ~containsBannedWords(form.data, env.BANNED_WORDS)
      /\ isEmailAllowed(form.data.email, env.EMAIL_DOMAIN_WHITELIST,
                        env.EMAIL_DOMAIN_BLACKLIST, env.EMAIL_ADDRESS_BLACKLIST).isAllowed

\* C25: with attachments enabled, a request whose attachment passes the
\* attachment filter and which passes every other gate has sendEmail invoked
\* exactly once, with that attachment, and is answered 200 when the send
\* succeeds.
C25_AttachmentIsSent ==
  \A p \in Procs :
    LET h == proc[p]
        checked == validateAndNormalizeAttachment(h.req.body.attachment,
                                                  getAttachmentsConfig(env))
    IN  (Done(h) /\ carriesAttachment(h) /\ isAttachmentsEnabled(env) /\ checked.ok
           /\ ~rateLimitServiceOf.exists)
          => /\ Count(h.trace, "SEND") = 1
             /\ h.sendArgs.attachment = checked.value
             /\ h.emailSent = "true" => h.response.status = 200

\* C26: with attachments disabled, a request that carries an attachment is
\* answered 400 with error 'Attachments are disabled', and sendEmail is not
\* invoked.
C26_AttachmentsDisabled ==
  \A p \in Procs :
    LET h == proc[p]
    IN  (Done(h) /\ carriesAttachment(h) /\ ~isAttachmentsEnabled(env))
          => /\ h.response.status = 400
             /\ h.response.error = "Attachments are disabled"
             /\ "SEND" \notin Range(h.trace)

\* createCorsHeaders has returned a header set, which it does exactly for an
\* origin it allows
corsAnswered ==
  /\ call.fn = "createCorsHeaders"
  /\ call.returned
  /\ call.result # NoHeaders

\* C27: the headers createCorsHeaders produces for an allowed origin
\* advertise 'Content-Type, X-API-Key' in Access-Control-Allow-Headers, so the
\* header that carries the API key is allowed
C27_ApiKeyHeaderAllowed ==
  corsAnswered
    => call.result["Access-Control-Allow-Headers"] = "Content-Type, X-API-Key"

\* C28: with a reliable store, however concurrent requests interleave, the
\* sends that succeeded for one key within one window of an enabled dimension
\* never exceed that dimension's limit
C28_LimitHoldsUnderConcurrency ==
  \A d \in Dims, e \in DOMAIN sentLog :
    LET cfg == rateLimitServiceOf.config[d]
        lo == WindowLo(e.at, cfg.window)
    IN  (~faulty /\ cfg.enabled)
          => sendsIn(d, e.ip, e.email, lo, lo + cfg.window * 1000) <= cfg.limit

\* incrementCounters has been called for dimension d of the request in slot p
incrementStarted(h, d) ==
  /\ "RATE_LIMIT_INCREMENT" \in Range(h.trace)
  /\ rateLimitServiceOf.config[d].enabled

fromSend(trace) ==
  IF "SEND" \in Range(trace)
  THEN SubSeq(trace, CHOOSE i \in 1..Len(trace) : trace[i] = "SEND", Len(trace))
  ELSE << >>

\* the stages a successful send is followed by in this deployment
successPath ==
  <<"SEND">>
    \o (IF rateLimitServiceOf.exists THEN <<"RATE_LIMIT_INCREMENT">> ELSE << >>)
    \o (IF isTrueString(env.ENABLE_AUTO_REPLY) THEN <<"AUTO_REPLY">> ELSE << >>)
    \o <<"RESPOND">>

\* C30: on the success path the stages run in the order sendEmail,
\* incrementCounters, sendAutoReply, response; the auto-reply starts and the
\* response is returned only when every increment has settled, with success
\* or with a swallowed failure, so no increment is in flight when the
\* handler ends
C30_IncrementAwaitedBeforeResponse ==
  \A p \in Procs :
    LET h == proc[p]
    IN  /\ (Done(h) /\ h.response.status = 200) => fromSend(h.trace) = successPath
        /\ h.pc \in {"autoreply", "done"} => \A d \in Dims : ~h.incrs[d].pending
        /\ h.pc = "incrementing" => h.emailSent = "true" /\ h.autoReplySent = "none"

\* a request has been answered 200 after the increments of two dimensions
\* have reached the store and after its auto-reply has failed
C30_Witness ==
  \E p \in Procs :
    LET h == proc[p]
    IN  /\ Done(h) /\ h.response.status = 200
        /\ fromSend(h.trace) = <<"SEND", "RATE_LIMIT_INCREMENT", "AUTO_REPLY", "RESPOND">>
        /\ \E d1, d2 \in Dims :
             /\ d1 # d2
             /\ rateLimitServiceOf.config[d1].enabled /\ rateLimitServiceOf.config[d2].enabled
             /\ ~h.incrs[d1].failed /\ ~h.incrs[d2].failed
        /\ Cardinality(DOMAIN redis) >= 2
        /\ h.autoReplySent = "false"

\* C31: every configuration parseRateLimitConfig produces has, for each of the
\* three dimensions, an integer limit > 0 and an integer window > 0, whatever
\* strings the RATE_LIMIT_*_LIMIT and RATE_LIMIT_*_WINDOW variables hold
C31_LimitsAndWindowsPositive ==
  (call.fn = "parseRateLimitConfig" /\ call.returned)
    => \A d \in Dims :
         /\ call.result[d].limit # NaN /\ call.result[d].limit > 0
         /\ call.result[d].window # NaN /\ call.result[d].window > 0

\* the count an enabled dimension holds for the request of h in the window
\* of its check
countAtCheck(h, d) ==
  redisGet(keyOf(d, identifierOf(d, clientIPOf(h), h.formData.email),
                 h.checks[d].windowStart))

atLimit(h, d) ==
  /\ rateLimitServiceOf.config[d].enabled
  /\ countAtCheck(h, d) >= rateLimitServiceOf.config[d].limit

\* the denial of dimension d for the check of h
denialOf(h, d) ==
  [allowed |-> FALSE, reason |-> reasonOf(d),
   resetTime |-> (h.checks[d].windowStart + rateLimitServiceOf.config[d].window) * 1000,
   remaining |-> 0]

\* the check of h has returned, every read was answered, and the counters
\* are as the check read them
checkedReliably(h) ==
  /\ ~faulty
  /\ checkCompleted(h)
  /\ "RATE_LIMIT_INCREMENT" \notin Range(h.trace)

\* C32: the decision of checkRateLimit is a function of the counter values
\* it reads: when several enabled dimensions are at or above their limit the
\* denial returned is that of global, else ip, else email, in whatever order
\* the reads complete; when none is, the request is allowed
C32_DenialByFixedPriority ==
  \A p \in Procs :
    LET h == proc[p]
    IN  checkedReliably(h)
          => h.rateLimitResult =
               (IF atLimit(h, "global") THEN denialOf(h, "global")
                ELSE IF atLimit(h, "ip") THEN denialOf(h, "ip")
                ELSE IF atLimit(h, "email") THEN denialOf(h, "email")
                ELSE Allowed)

\* all three dimensions are at their limit, the read of the global counter
\* was the last to be answered, and the denial is the global one
C32_Witness ==
  \E p \in Procs :
    LET h == proc[p]
    IN  /\ checkedReliably(h)
        /\ \A d \in Dims : atLimit(h, d)
        /\ h.lastSettled = "global"
        /\ h.rateLimitResult.reason = reasonOf("global")
        /\ Done(h) /\ h.response.status = 429

\* the read of dimension d was answered and found the counter at its limit
deniedByRead(h, d) == atLimit(h, d) /\ ~h.checks[d].failed

\* C33: with failure mode 'open', when the read of one enabled dimension
\* fails while the counter of another enabled dimension, read successfully,
\* is at or above its limit, checkRateLimit denies for the latter dimension
\* and the request is answered 429 without a send
C33_PartialFailureKeepsDenial ==
  \A p \in Procs, d \in Dims :
    LET h == proc[p]
    IN  (/\ RATE_LIMIT_REDIS_FAILURE_MODE(buildEnv) = "open"
         /\ checkCompleted(h)
         /\ "RATE_LIMIT_INCREMENT" \notin Range(h.trace)
         /\ someReadFailed(h)
         /\ deniedByRead(h, d))
        => /\ ~h.rateLimitResult.allowed
           /\ \E e \in Dims : deniedByRead(h, e) /\ h.rateLimitResult = denialOf(h, e)
           /\ (\A e \in Dims \ {d} : ~deniedByRead(h, e)) => h.rateLimitResult = denialOf(h, d)
           /\ "SEND" \notin Range(h.trace)
           /\ Done(h) /\ h.response.status = 429

\* the read of the global counter failed, the per-sender counter was read at
\* its limit, and the request was refused for the sender
C33_Witness ==
  \E p \in Procs :
    LET h == proc[p]
    IN  /\ RATE_LIMIT_REDIS_FAILURE_MODE(buildEnv) = "open"
        /\ Done(h) /\ h.response.status = 429
        /\ h.checks["global"].present /\ h.checks["global"].failed
        /\ deniedByRead(h, "email")
        /\ h.rateLimitResult.reason = reasonOf("email")

\* the instants of the clock so far
Instants == {k * 1000 : k \in 0..(now \div 1000)}

\* C34: with a reachable store and requests handled one at a time, the sends
\* that succeeded for one key of an enabled dimension within any interval as
\* long as the window of the dimension number at most twice its limit
C34_AtMostTwiceTheLimit ==
  \A d \in Dims, e \in DOMAIN sentLog, t \in Instants :
    LET cfg == rateLimitServiceOf.config[d]
    IN  (~faulty /\ cfg.enabled)
          => sendsIn(d, e.ip, e.email, t, t + cfg.window * 1000) <= 2 * cfg.limit

\* a burst across the boundary of a window: with limit 1 and a window of two
\* seconds, one message was sent in the last second of a window and one in
\* the first second of the next, and a third request was refused
C34_Witness ==
  /\ ~faulty
  /\ rateLimitServiceOf.config["global"].enabled
  /\ rateLimitServiceOf.config["global"].limit = 1
  /\ rateLimitServiceOf.config["global"].window = 2
  /\ \E e1, e2 \in DOMAIN sentLog : e1.at = 1000 /\ e2.at = 2000
  /\ \E e \in DOMAIN sentLog : sendsIn("global", e.ip, e.email, 1000, 3000) = 2
  /\ \E p \in Procs : Done(proc[p]) /\ proc[p].response.status = 429 /\ proc[p].checkedAt = 2000

\* the successful sends, within the per-sender window of the check of h, from
\* addresses that differ from the address of h in letter case only
variantSends(h) ==
  LET w == rateLimitServiceOf.config["email"].window
      lo == WindowLo(h.checkedAt, w)
  IN  sumLog({e \in DOMAIN sentLog :
                /\ e.email # h.formData.email
                /\ toLowerCase(e.email) = toLowerCase(h.formData.email)
                /\ lo <= e.at /\ e.at < lo + w * 1000})

\* C35: two requests whose sender addresses differ in letter case only read
\* and increment the same per-sender counter of a window: sends from the
\* other spelling use up the budget of this one, and no counter is keyed by
\* an address with a capital letter
C35_CaseSharesBudget ==
  /\ \A p \in Procs :
       LET h == proc[p]
       IN  (/\ checkedReliably(h)
            /\ rateLimitServiceOf.config["email"].enabled
            /\ variantSends(h) >= rateLimitServiceOf.config["email"].limit)
           => /\ ~h.checks["email"].result.allowed
              /\ countAtCheck(h, "email") >= variantSends(h)
              /\ Done(h) /\ h.response.status = 429
  /\ \A key \in DOMAIN redis : key[1] = "email" => key[2] = toLowerCase(key[2])

\* a sender refused for the per-sender limit who has sent nothing under this
\* spelling of the address: the budget went to the other spelling
C35_Witness ==
  \E p \in Procs :
    LET h == proc[p]
    IN  /\ checkedReliably(h)
        /\ rateLimitServiceOf.config["email"].enabled
        /\ variantSends(h) >= 1
        /\ \A e \in DOMAIN sentLog : e.email # h.formData.email
        /\ h.formData.email # toLowerCase(h.formData.email)
        /\ Done(h) /\ h.response.status = 429
        /\ h.rateLimitResult.reason = reasonOf("email")

\* the time to live incrementCounter gives the counters of dimension d, and
\* the instant the window of a key ends, in milliseconds
ttlMsOf(d) == (rateLimitServiceOf.config[d].window + TTL_BUFFER) * 1000
windowEndOf(key) == (key[3] + rateLimitServiceOf.config[key[1]].window) * 1000

incrementedNow(key) ==
  key \notin DOMAIN redis \/ redis'[key].count > redis[key].count

\* C36: every increment of a counter sets its expiry to window + 60 seconds
\* from the time of that increment, and so no counter in the store expires
\* before the end of the window it counts
C36_ExpiryResetAtEachIncrement ==
  /\ [][\A key \in DOMAIN redis' :
          incrementedNow(key) => redis'[key].expireAt = now' + ttlMsOf(key[1])]_vars
  /\ [](\A key \in DOMAIN redis : redis[key].expireAt >= windowEndOf(key))

\* a counter incremented a second time in a later second of its window: its
\* expiry is counted from the later increment
C36_Witness ==
  \E key \in DOMAIN redis :
    /\ redis[key].count >= 2
    /\ now > key[3] * 1000
    /\ redis[key].expireAt = now + ttlMsOf(key[1])

\* containsBannedWords has returned true
bannedWordFound ==
  /\ call.fn = "containsBannedWords"
  /\ call.returned
  /\ call.result = TRUE

\* the banned words of the call: the entries of the list, trimmed, without
\* the empty ones
bannedTokens ==
  IF call.args[2] = Undefined THEN {}
  ELSE {trim(w) : w \in Range(split(call.args[2], ";"))} \ {Str0}

\* word w occurs in text t, letter case aside
occursIn(w, t) == includes(toLowerCase(t), toLowerCase(w))

inOneField(w) ==
  \E f \in {call.args[1].email, call.args[1].subject, call.args[1].message} : occursIn(w, f)

\* the three fields in order, a single space between them
joinedFields ==
  call.args[1].email \o <<" ">> \o call.args[1].subject \o <<" ">> \o call.args[1].message

\* C37 as stated: containsBannedWords returns true only if some non-empty
\* trimmed banned word is a case-insensitive substring of the email, of the
\* subject or of the message taken on its own
C37_MatchWithinOneField ==
  bannedWordFound => \E w \in bannedTokens : inOneField(w)

\* C37, amended: containsBannedWords returns true only if some non-empty
\* trimmed banned word is a case-insensitive substring of the email, the
\* subject and the message joined by single spaces, and a word without a
\* space is then found inside one of the fields
C37_MatchWithinJoinedFields ==
  bannedWordFound =>
    \E w \in bannedTokens :
      /\ occursIn(w, joinedFields)
      /\ " " \notin Range(w) => inOneField(w)

\* a submission refused for a word that none of its fields holds: the word
\* begins at the end of one field and ends at the start of the next
C37_Witness ==
  /\ bannedWordFound
  /\ \A w \in bannedTokens : ~inOneField(w)
  /\ \E w \in bannedTokens : occursIn(w, joinedFields)

unauthorized(h) ==
  /\ Done(h)
  /\ h.response.status = 401
  /\ h.response.error = "Unauthorized"
  /\ h.trace = <<"AUTH", "RESPOND">>

authAdmitted(h) ==
  /\ h.response.status # 401
  /\ Len(h.trace) >= 2 /\ h.trace[1] = "AUTH" /\ h.trace[2] = "JSON_PARSE"

\* C6 as stated: if API_KEY is non-empty, every request whose X-API-Key is
\* missing or differs from it is answered 401 before the body is parsed;
\* if it is unset or empty, the auth stage admits every request.
C6_AuthFirst_NonEmptyKey ==
  \A p \in Procs :
    Started(proc[p]) =>
      IF env.API_KEY \notin {Undefined, Str0}
      THEN proc[p].req.apiKey # env.API_KEY => unauthorized(proc[p])
      ELSE authAdmitted(proc[p])

keyConfigured == env.API_KEY # Undefined /\ \E i \in DOMAIN env.API_KEY : env.API_KEY[i] # " "

\* C6 as amended: the same, with "configured" meaning that API_KEY holds a
\* character other than white space.
C6_AuthFirst ==
  \A p \in Procs :
    Started(proc[p]) =>
      IF keyConfigured
      THEN proc[p].req.apiKey # env.API_KEY => unauthorized(proc[p])
      ELSE authAdmitted(proc[p])

\* a malformed body with a wrong-case credential is answered 401
C6_Witness ==
  \E p \in Procs :
    /\ unauthorized(proc[p])
    /\ proc[p].req.apiKey = keyKUpper
    /\ proc[p].req.body.kind = "malformed"

\* C7 as stated: a sendEmail that throws is answered like one that returns
\* false: 500 with the 'Failed to send email' error.
C7_ThrowLikeFalse ==
  \A p \in Procs :
    proc[p].emailSent = "throws"
      => /\ Done(proc[p])
         /\ proc[p].response.status = 500
         /\ proc[p].response.error = errFailedToSend

\* C7 as amended: a sendEmail that throws is caught by the handler and
\* answered 500 'Internal server error'; nothing else runs for the request.
C7_ThrowIsInternalError ==
  \A p \in Procs :
    proc[p].emailSent = "throws"
      => /\ Done(proc[p])
         /\ proc[p].response.status = 500
         /\ proc[p].response.error = errInternal
         /\ proc[p].response.error # errFailedToSend
         /\ "RATE_LIMIT_INCREMENT" \notin Range(proc[p].trace)
         /\ "AUTO_REPLY" \notin Range(proc[p].trace)

C7_Witness ==
  \E p \in Procs : Done(proc[p]) /\ proc[p].emailSent = "throws"

\* C8: when sendEmail returns false the response is 500 with the 'Failed to
\* send email' error and sendAutoReply is not invoked.
C8_SendFalse ==
  \A p \in Procs :
    proc[p].emailSent = "false"
      => /\ Done(proc[p])
         /\ proc[p].response.status = 500
         /\ proc[p].response.error = errFailedToSend
         /\ "AUTO_REPLY" \notin Range(proc[p].trace)
         /\ proc[p].autoReplySent = "none"

C8_Witness ==
  \E p \in Procs :
    /\ Done(proc[p]) /\ proc[p].emailSent = "false"
    /\ isTrueString(env.ENABLE_AUTO_REPLY)

\* C9: once sendEmail has returned true the response is 200 with success =
\* true, whether sendAutoReply returns true, returns false or throws.
C9_SuccessDespiteAutoReply ==
  \A p \in Procs :
    (Done(proc[p]) /\ proc[p].emailSent = "true")
      => proc[p].response.status = 200 /\ proc[p].response.success

C9_Witness ==
  \E p \in Procs :
    /\ Done(proc[p]) /\ proc[p].emailSent = "true"
    /\ proc[p].autoReplySent = "throws"

autoReplyOnlyAfterSuccess(h, enabled) ==
  /\ Count(h.trace, "AUTO_REPLY") <= 1
  /\ "AUTO_REPLY" \in Range(h.trace)
       => /\ enabled
          /\ h.emailSent = "true"
          /\ "SEND" \in Range(h.trace)
          /\ IndexOf(h.trace, "SEND") < IndexOf(h.trace, "AUTO_REPLY")
  /\ h.autoReplySent # "none" => "AUTO_REPLY" \in Range(h.trace)
  /\ (Done(h) /\ h.response.status # 200) => "AUTO_REPLY" \notin Range(h.trace)

\* C10 as stated: sendAutoReply is invoked at most once per request, and
\* only when ENABLE_AUTO_REPLY is 'true' and sendEmail has already returned
\* true; a request answered with an error has no auto-reply.
C10_AutoReplyOnlyIfLiterallyTrue ==
  \A p \in Procs : autoReplyOnlyAfterSuccess(proc[p], env.ENABLE_AUTO_REPLY = sTrue)

\* C10 as amended: the same, with ENABLE_AUTO_REPLY equal to 'true' in any
\* letter case.
C10_AutoReplyOnlyAfterSuccess ==
  \A p \in Procs :
    autoReplyOnlyAfterSuccess(proc[p],
      env.ENABLE_AUTO_REPLY # Undefined /\ toLowerCase(env.ENABLE_AUTO_REPLY) = sTrue)

C10_Witness ==
  \E p \in Procs :
    /\ Done(proc[p]) /\ proc[p].autoReplySent = "true"
    /\ Count(proc[p].trace, "AUTO_REPLY") = 1

=============================================================================
